---------------------------- MODULE Spec2Model ----------------------------
(***************************************************************************)
(* A model of the weather-damage dashboard (farwestfed/ag3-dash):          *)
(* record ingestion, the event-type classifier, the filter stage, the      *)
(* aggregation effect and the scenario calculator of                       *)
(* src/src/components/WeatherDamageDashboard.js.                           *)
(*                                                                         *)
(* JavaScript numbers are IEEE-754 binary64 values.  The scenario          *)
(* calculator works on the fractions 0.25, 0.40, 0.30 and 0.20, none of    *)
(* which but the first is a binary fraction, so its arithmetic is modelled *)
(* bit for bit: a number is a sign, a 53-bit significand and an exponent,  *)
(* and every operation rounds to nearest, ties to even.                    *)
(***************************************************************************)
EXTENDS Integers, Sequences, FiniteSets, TLC

(***************************************************************************)
(* Let(e, F) is F(e) with e evaluated once: TLC passes operator arguments  *)
(* and LET definitions unevaluated and may evaluate them again at each     *)
(* use, while a bound variable holds a value.                              *)
(***************************************************************************)
Let(e, F(_)) == CHOOSE r \in {F(v) : v \in {e}} : TRUE

(***************************************************************************)
(* Natural numbers of any size, as sequences of bits, lowest bit first     *)
(* (TLC's own integers are 32 bits wide and cannot hold a significand).    *)
(* The arithmetic runs on limbs of 5 bits (base 32), which keeps every     *)
(* intermediate value below 2^31 for operands below 2^25.                  *)
(***************************************************************************)
Zeros(k) == [i \in 1..k |-> 0]

Bit(b, i) == IF i <= Len(b) THEN b[i] ELSE 0

RECURSIVE NatBits(_)
NatBits(n) == IF n = 0 THEN <<>> ELSE <<n % 2>> \o NatBits(n \div 2)

\* the index of the highest set bit of a tuple of bits, 0 for none
TopBit(b) ==
  IF \E i \in 1..Len(b) : b[i] = 1
  THEN CHOOSE i \in 1..Len(b) : b[i] = 1 /\ \A j \in (i + 1)..Len(b) : b[j] = 0
  ELSE 0

Strip(bits) == Let(bits, LAMBDA b : SubSeq(b, 1, TopBit(b)))

ToLimbs(bits) ==
  Let(bits, LAMBDA b :
    SubSeq([j \in 1..((Len(b) + 4) \div 5) |->
              Bit(b, 5 * j - 4) + 2 * Bit(b, 5 * j - 3) + 4 * Bit(b, 5 * j - 2)
                + 8 * Bit(b, 5 * j - 1) + 16 * Bit(b, 5 * j)],
           1, (Len(b) + 4) \div 5))

ToBits(limbs) ==
  Let(limbs, LAMBDA l :
    SubSeq([i \in 1..(5 * Len(l)) |->
              (l[((i - 1) \div 5) + 1] \div <<1, 2, 4, 8, 16>>[((i - 1) % 5) + 1]) % 2],
           1, 5 * Len(l)))

Limb(l, i) == IF i <= Len(l) THEN l[i] ELSE 0

\* a and b are tuples of limbs
RECURSIVE AddLimbsFrom(_, _, _, _)
AddLimbsFrom(a, b, i, c) ==
  IF i > Len(a) /\ i > Len(b)
  THEN IF c = 1 THEN <<1>> ELSE <<>>
  ELSE Let(Limb(a, i) + Limb(b, i) + c, LAMBDA s :
         <<s % 32>> \o AddLimbsFrom(a, b, i + 1, s \div 32))

AddBits(x, y) ==
  Let(ToLimbs(x), LAMBDA a : Let(ToLimbs(y), LAMBDA b :
    Strip(ToBits(AddLimbsFrom(a, b, 1, 0)))))

\* a - b for a >= b
RECURSIVE SubLimbsFrom(_, _, _, _)
SubLimbsFrom(a, b, i, c) ==
  IF i > Len(a)
  THEN <<>>
  ELSE Let(Limb(a, i) - Limb(b, i) - c, LAMBDA d :
         <<d % 32>> \o SubLimbsFrom(a, b, i + 1, IF d < 0 THEN 1 ELSE 0))

SubBits(x, y) ==
  Let(ToLimbs(x), LAMBDA a : Let(ToLimbs(y), LAMBDA b :
    Strip(ToBits(SubLimbsFrom(a, b, 1, 0)))))

LessBits(x, y) ==
  Let(Strip(x), LAMBDA sa : Let(Strip(y), LAMBDA sb :
    IF Len(sa) # Len(sb)
    THEN Len(sa) < Len(sb)
    ELSE \E i \in 1..Len(sa) :
           sa[i] < sb[i] /\ \A j \in (i + 1)..Len(sa) : sa[j] = sb[j]))

\* a * n for a natural number n below 2^25
RECURSIVE MulLimbsFrom(_, _, _, _)
MulLimbsFrom(a, n, i, c) ==
  IF i > Len(a) /\ c = 0
  THEN <<>>
  ELSE Let(Limb(a, i) * n + c, LAMBDA t :
         <<t % 32>> \o MulLimbsFrom(a, n, i + 1, t \div 32))

MulBits(x, n) ==
  Let(ToLimbs(x), LAMBDA a : Strip(ToBits(MulLimbsFrom(a, n, 1, 0))))

\* the limbs 1..i of a \div n and the remainder, by long division from the
\* top, for a natural number n below 2^25
RECURSIVE DivLimbsFrom(_, _, _, _)
DivLimbsFrom(a, n, i, r) ==
  IF i = 0
  THEN [q |-> <<>>, r |-> r]
  ELSE Let(DivLimbsFrom(a, n, i - 1, (32 * r + a[i]) % n), LAMBDA rest :
         [q |-> Append(rest.q, (32 * r + a[i]) \div n), r |-> rest.r])

DivBits(x, n) ==
  Let(ToLimbs(x), LAMBDA a :
    Let(DivLimbsFrom(a, n, Len(a), 0), LAMBDA d :
      [q |-> Strip(ToBits(d.q)), r |-> d.r]))

\* the number a tuple of at most 30 bits stands for
RECURSIVE BitsValue(_)
BitsValue(b) == IF Len(b) = 0 THEN 0 ELSE b[1] + 2 * BitsValue(Tail(b))

\* the quotient digit d of cur \div y for cur < 32 * y, and the remainder.
\* The leading 25 bits of y and the bits of cur above the same position
\* give an estimate that is d or d - 1.
QuotientDigit(cur, y) ==
  Let(IF Len(y) > 25 THEN Len(y) - 25 ELSE 0, LAMBDA k :
    Let(BitsValue(SubSeq(cur, k + 1, Len(cur)))
          \div (BitsValue(SubSeq(y, k + 1, Len(y))) + (IF k = 0 THEN 0 ELSE 1)),
        LAMBDA low :
      Let(IF LessBits(cur, MulBits(y, low + 1)) THEN low ELSE low + 1, LAMBDA d :
        [d |-> d, r |-> SubBits(cur, MulBits(y, d))])))

\* long division of the limbs i..1 of a by the tuple of bits y, from the top:
\* r is the remainder so far (below y), q the quotient limbs found so far
RECURSIVE DivLimbsByFrom(_, _, _, _, _)
DivLimbsByFrom(a, y, i, r, q) ==
  IF i = 0
  THEN [q |-> q, r |-> r]
  ELSE Let(QuotientDigit(AddBits(Zeros(5) \o r, NatBits(a[i])), y), LAMBDA step :
         DivLimbsByFrom(a, y, i - 1, step.r, <<step.d>> \o q))

\* x \div y and the remainder for tuples of bits, y not zero.  The top
\* limbs of x that together stay below y are the first remainder.
DivBitsBy(x, y) ==
  Let(ToLimbs(x), LAMBDA a : Let(Strip(y), LAMBDA b :
    Let(IF (Len(b) - 1) \div 5 < Len(a) THEN (Len(b) - 1) \div 5 ELSE Len(a), LAMBDA top :
      Let(DivLimbsByFrom(a, b, Len(a) - top,
                         Strip(ToBits(SubSeq(a, Len(a) - top + 1, Len(a)))), <<>>),
          LAMBDA d : [q |-> Strip(ToBits(d.q)), r |-> d.r]))))

(***************************************************************************)
(* binary64 values: kind "num" is (-1)^sign * mant * 2^exp with mant       *)
(* either empty (zero) or exactly 53 bits with the top bit set.            *)
(* The exponent range is not limited: no value of the dashboard comes      *)
(* near the subnormal or the overflow range.                               *)
(***************************************************************************)
NaN == [kind |-> "NaN", sign |-> 0, mant |-> <<>>, exp |-> 0]

Infinity(s) == [kind |-> "inf", sign |-> s, mant |-> <<>>, exp |-> 0]

Zero == [kind |-> "num", sign |-> 0, mant |-> <<>>, exp |-> 0]

Num(s, m, e) == [kind |-> "num", sign |-> s, mant |-> m, exp |-> e]

\* round (-1)^s * bits * 2^e (plus a non-zero fraction below the lowest bit
\* when sticky) to nearest, ties to even
RoundToDouble(s, bits, e, sticky) ==
  Let(Strip(bits), LAMBDA b :
    IF Len(b) = 0
    THEN Zero
    ELSE IF Len(b) <= 53
    THEN Num(s, Zeros(53 - Len(b)) \o b, e - (53 - Len(b)))
    ELSE Let(SubSeq(b, Len(b) - 52, Len(b)), LAMBDA kept :
           Let(Len(b) - 53, LAMBDA k :
             IF b[k] = 1 /\ (sticky \/ kept[1] = 1 \/ \E i \in 1..(k - 1) : b[i] = 1)
             THEN Let(AddBits(kept, <<1>>), LAMBDA r :
                    IF Len(r) > 53
                    THEN Num(s, SubSeq(r, 2, 54), e + k + 1)
                    ELSE Num(s, r, e + k))
             ELSE Num(s, kept, e + k))))

Abs(n) == IF n < 0 THEN -n ELSE n

FromInt(n) == RoundToDouble(IF n < 0 THEN 1 ELSE 0, NatBits(Abs(n)), 0, FALSE)

IsNaN(x) == x.kind = "NaN"

IsZero(x) == x.kind = "num" /\ x.mant = <<>>

DNeg(x0) ==
  Let(x0, LAMBDA x :
    IF x.kind = "NaN" \/ IsZero(x) THEN x ELSE [x EXCEPT !.sign = 1 - x.sign])

\* x + y for finite non-zero x and y
AddFinite(x, y) ==
  Let(IF x.exp < y.exp THEN x.exp ELSE y.exp, LAMBDA e :
    Let(Zeros(x.exp - e) \o x.mant, LAMBDA a :
      Let(Zeros(y.exp - e) \o y.mant, LAMBDA b :
        IF x.sign = y.sign
        THEN RoundToDouble(x.sign, AddBits(a, b), e, FALSE)
        ELSE IF LessBits(a, b)
        THEN RoundToDouble(y.sign, SubBits(b, a), e, FALSE)
        ELSE RoundToDouble(x.sign, SubBits(a, b), e, FALSE))))

DAdd(x0, y0) ==
  Let(x0, LAMBDA x : Let(y0, LAMBDA y :
    IF IsNaN(x) \/ IsNaN(y) THEN NaN
    ELSE IF x.kind = "inf"
    THEN IF y.kind = "inf" /\ y.sign # x.sign THEN NaN ELSE x
    ELSE IF y.kind = "inf" THEN y
    ELSE IF IsZero(x) THEN y
    ELSE IF IsZero(y) THEN x
    ELSE AddFinite(x, y)))

DSub(x, y) == DAdd(x, DNeg(y))

\* x * n for an integer n (itself a binary64 value, exactly)
DMulInt(x0, n) ==
  Let(x0, LAMBDA x :
    IF IsNaN(x) THEN NaN
    ELSE IF x.kind = "inf"
    THEN IF n = 0 THEN NaN ELSE Infinity(IF n < 0 THEN 1 - x.sign ELSE x.sign)
    ELSE IF n = 0 \/ IsZero(x) THEN Zero
    ELSE RoundToDouble(IF n < 0 THEN 1 - x.sign ELSE x.sign,
                       MulBits(x.mant, Abs(n)), x.exp, FALSE))

\* x / n for an integer n
DDivInt(x0, n) ==
  Let(x0, LAMBDA x :
    IF IsNaN(x) THEN NaN
    ELSE IF x.kind = "inf" THEN Infinity(IF n < 0 THEN 1 - x.sign ELSE x.sign)
    ELSE IF n = 0
    THEN IF IsZero(x) THEN NaN ELSE Infinity(x.sign)
    ELSE IF IsZero(x) THEN Zero
    ELSE Let(DivBits(Zeros(32) \o x.mant, Abs(n)), LAMBDA d :
           RoundToDouble(IF n < 0 THEN 1 - x.sign ELSE x.sign,
                         d.q, x.exp - 32, d.r # 0)))

\* x / y
DDiv(x0, y0) ==
  Let(x0, LAMBDA x : Let(y0, LAMBDA y :
    Let(IF x.sign = y.sign THEN 0 ELSE 1, LAMBDA s :
      IF IsNaN(x) \/ IsNaN(y) THEN NaN
      ELSE IF x.kind = "inf" THEN (IF y.kind = "inf" THEN NaN ELSE Infinity(s))
      ELSE IF y.kind = "inf" THEN Zero
      ELSE IF IsZero(y) THEN (IF IsZero(x) THEN NaN ELSE Infinity(s))
      ELSE IF IsZero(x) THEN Zero
      ELSE Let(DivBitsBy(Zeros(55) \o x.mant, y.mant), LAMBDA d :
             RoundToDouble(s, d.q, x.exp - y.exp - 55, d.r # <<>>)))))

\* x < y, false when either is NaN
DLess(x, y) ==
  Let(DSub(x, y), LAMBDA d : d.kind # "NaN" /\ ~IsZero(d) /\ d.sign = 1)

\* Math.round: the nearest integer, a half rounded towards +Infinity
DRound(x0) ==
  Let(x0, LAMBDA x :
    IF x.kind # "num" \/ IsZero(x) \/ x.exp >= 0 THEN x
    ELSE IF -x.exp > 53 THEN Zero
    ELSE Let(-x.exp, LAMBDA k :
           Let(SubSeq(x.mant, k + 1, 53), LAMBDA whole :
             IF x.mant[k] = 1 /\ (x.sign = 0 \/ \E i \in 1..(k - 1) : x.mant[i] = 1)
             THEN RoundToDouble(x.sign, AddBits(whole, <<1>>), 0, FALSE)
             ELSE RoundToDouble(x.sign, whole, 0, FALSE))))

\* the decimal literal p/q, read as a binary64 value
Literal(p, q) == DDivInt(FromInt(p), q)

(***************************************************************************)
(* Text.  A JavaScript string is a TLA+ string; Chars turns it into the    *)
(* sequence of its one-character strings.  A field that the parsed row     *)
(* does not have (JavaScript's undefined) is the value Undefined, a text   *)
(* no CSV field of the model contains.                                     *)
(***************************************************************************)
Undefined == "<undefined>"

\* JavaScript's null (useState(null) of error), likewise
null == "<null>"

Chars(str) == Let(str, LAMBDA t : SubSeq([i \in 1..Len(t) |-> SubSeq(t, i, i)], 1, Len(t)))

\* JavaScript truthiness of a field: undefined, null and "" are falsy
Truthy(v) == v \notin {Undefined, null, ""}

IndexIn(alphabet, c) ==
  IF \E i \in 1..Len(alphabet) : SubSeq(alphabet, i, i) = c
  THEN CHOOSE i \in 1..Len(alphabet) : SubSeq(alphabet, i, i) = c
  ELSE 0

LowerChar(c) ==
  LET k == IndexIn("ABCDEFGHIJKLMNOPQRSTUVWXYZ", c)
  IN  IF k = 0 THEN c ELSE SubSeq("abcdefghijklmnopqrstuvwxyz", k, k)

\* toLowerCase leaving every character as it is
toLowerCaseUnchanged(str) == Let(str, LAMBDA cs : SubSeq(cs, 1, Len(cs)))

toLowerCase(str) ==
  Let(str, LAMBDA cs : SubSeq([i \in 1..Len(cs) |-> LowerChar(cs[i])], 1, Len(cs)))

IsWhiteSpace(c) == c \in {" ", "\t", "\n", "\r"}

trim(str) ==
  Let(str, LAMBDA cs :
    Let({i \in 1..Len(cs) : ~IsWhiteSpace(cs[i])}, LAMBDA kept :
      IF kept = {}
      THEN <<>>
      ELSE SubSeq(cs, CHOOSE i \in kept : \A j \in kept : i <= j,
                      CHOOSE i \in kept : \A j \in kept : j <= i)))

\* String.prototype.includes for a keyword given as a string
includes(str, keyword) ==
  Let(str, LAMBDA cs :
    \E i \in 1..(Len(cs) - Len(keyword) + 1) :
      \A j \in 1..Len(keyword) : cs[i + j - 1] = SubSeq(keyword, j, j))

(***************************************************************************)
(* The event-type classifier.                                              *)
(***************************************************************************)
\* the chain of keyword tests with the Severe Storm test moved to the front
MatchRulesStormFirst(lowerType) ==
  IF \/ includes(lowerType, "storm")
     \/ includes(lowerType, "wind")
     \/ includes(lowerType, "nor'easter")
     \/ includes(lowerType, "atmospheric river")
  THEN "Severe Storm"
  ELSE IF \/ includes(lowerType, "hurricane")
          \/ includes(lowerType, "tropical")
          \/ includes(lowerType, "cyclone")
          \/ includes(lowerType, "mawar")
  THEN "Hurricane/Tropical Storm"
  ELSE IF \/ includes(lowerType, "winter")
          \/ includes(lowerType, "snow")
          \/ includes(lowerType, "arctic")
          \/ includes(lowerType, "ice")
  THEN "Winter Storm"
  ELSE IF \/ includes(lowerType, "flood")
          \/ includes(lowerType, "water")
          \/ includes(lowerType, "rain")
  THEN "Flooding"
  ELSE IF \/ includes(lowerType, "tornado")
          \/ includes(lowerType, "torando")
  THEN "Tornado"
  ELSE IF includes(lowerType, "hail") THEN "Hail"
  ELSE IF includes(lowerType, "fire") THEN "Fire"
  ELSE IF includes(lowerType, "earthquake") THEN "Earthquake"
  ELSE IF includes(lowerType, "wave") THEN "Wave"
  ELSE "Other"

\* the chain of keyword tests, in the order of the source
MatchRules(lowerType) ==
  IF \/ includes(lowerType, "hurricane")
     \/ includes(lowerType, "tropical")
     \/ includes(lowerType, "cyclone")
     \/ includes(lowerType, "mawar")
  THEN "Hurricane/Tropical Storm"
  ELSE IF \/ includes(lowerType, "winter")
          \/ includes(lowerType, "snow")
          \/ includes(lowerType, "arctic")
          \/ includes(lowerType, "ice")
  THEN "Winter Storm"
  ELSE IF \/ includes(lowerType, "storm")
          \/ includes(lowerType, "wind")
          \/ includes(lowerType, "nor'easter")
          \/ includes(lowerType, "atmospheric river")
  THEN "Severe Storm"
  ELSE IF \/ includes(lowerType, "flood")
          \/ includes(lowerType, "water")
          \/ includes(lowerType, "rain")
  THEN "Flooding"
  ELSE IF \/ includes(lowerType, "tornado")
          \/ includes(lowerType, "torando")
  THEN "Tornado"
  ELSE IF includes(lowerType, "hail") THEN "Hail"
  ELSE IF includes(lowerType, "fire") THEN "Fire"
  ELSE IF includes(lowerType, "earthquake") THEN "Earthquake"
  ELSE IF includes(lowerType, "wave") THEN "Wave"
  ELSE "Other"

\* normalizeWeatherType without its guard: toLowerCase of undefined or null throws
normalizeWeatherTypeUnguarded(type) ==
  IF type \in {Undefined, null}
  THEN "TypeError"
  ELSE Let(trim(toLowerCase(Chars(type))), LAMBDA lowerType : MatchRules(lowerType))

normalizeWeatherType(type) ==
  IF ~Truthy(type) THEN "Other"
  ELSE Let(trim(toLowerCase(Chars(type))), LAMBDA lowerType : MatchRules(lowerType))

(***************************************************************************)
(* Record ingestion.  The texts of the model carry no exponent, no "0x"    *)
(* and no "Infinity".  A number read from a signed run of digits is a      *)
(* whole number of at most four digits, which binary64 holds exactly, and  *)
(* is kept as the integer v; a number read from a text with a fraction is  *)
(* kept as its binary64 value.                                             *)
(***************************************************************************)
JNum(v) == [nan |-> FALSE, v |-> v]

JNaN == [nan |-> TRUE, v |-> 0]

IsDouble(x) == "kind" \in DOMAIN x

\* the binary64 value of a number of either form
ToDouble(x) == IF IsDouble(x) THEN x ELSE IF x.nan THEN NaN ELSE FromInt(x.v)

isNaN(x) == IF IsDouble(x) THEN IsNaN(x) ELSE x.nan

\* a + b and a - b: exact on whole numbers, binary64 addition otherwise
JAdd(x, y) ==
  Let(x, LAMBDA a : Let(y, LAMBDA b :
    IF IsDouble(a) \/ IsDouble(b) THEN DAdd(ToDouble(a), ToDouble(b))
    ELSE IF a.nan \/ b.nan THEN JNaN ELSE JNum(a.v + b.v)))

\* a < b on numbers, false when either is NaN
JLess(x, y) ==
  Let(x, LAMBDA a : Let(y, LAMBDA b :
    IF IsDouble(a) \/ IsDouble(b) THEN DLess(ToDouble(a), ToDouble(b))
    ELSE ~a.nan /\ ~b.nan /\ a.v < b.v))

JSub(x, y) ==
  Let(x, LAMBDA a : Let(y, LAMBDA b : IF a.nan \/ b.nan THEN JNaN ELSE JNum(a.v - b.v)))

\* a === b on numbers: NaN equals nothing
JStrictEq(a, b) == ~a.nan /\ ~b.nan /\ a.v = b.v

IsDigit(c) == IndexIn("0123456789", c) # 0

AllDigits(str) ==
  Let(Chars(str), LAMBDA cs : Len(cs) > 0 /\ \A i \in 1..Len(cs) : IsDigit(cs[i]))

RECURSIVE DigitsValue(_, _, _)
DigitsValue(cs, first, last) ==
  IF last < first
  THEN 0
  ELSE 10 * DigitsValue(cs, first, last - 1) + (IndexIn("0123456789", cs[last]) - 1)

\* the index of the first character of cs at or after i that is not a digit
FirstNonDigit(cs, i) ==
  IF \E k \in i..Len(cs) : ~IsDigit(cs[k])
  THEN CHOOSE k \in i..Len(cs) : ~IsDigit(cs[k]) /\ \A j \in i..(k - 1) : IsDigit(cs[j])
  ELSE Len(cs) + 1

\* the index of the first character of cs that is not white space
FirstNonSpace(cs) ==
  IF \E k \in 1..Len(cs) : ~IsWhiteSpace(cs[k])
  THEN CHOOSE k \in 1..Len(cs) :
         ~IsWhiteSpace(cs[k]) /\ \A j \in 1..(k - 1) : IsWhiteSpace(cs[j])
  ELSE Len(cs) + 1

NumericPrefix(str) ==
  Let(Chars(str), LAMBDA cs :
    Let(FirstNonSpace(cs), LAMBDA start :
      Let(IF start <= Len(cs) /\ cs[start] \in {"+", "-"} THEN start + 1 ELSE start,
          LAMBDA first :
        Let(FirstNonDigit(cs, first) - 1, LAMBDA last :
          IF last < first
          THEN JNaN
          ELSE IF cs[start] = "-"
          THEN JNum(-DigitsValue(cs, first, last))
          ELSE JNum(DigitsValue(cs, first, last))))))

\* the longest prefix that is a decimal literal: a sign, digits, and a "."
\* with digits; a fraction of zeros leaves a whole number
DecimalPrefix(str) ==
  Let(Chars(str), LAMBDA cs :
    Let(FirstNonSpace(cs), LAMBDA start :
      Let(IF start <= Len(cs) /\ cs[start] \in {"+", "-"} THEN start + 1 ELSE start,
          LAMBDA first :
        Let(FirstNonDigit(cs, first) - 1, LAMBDA last :
          Let(IF last + 1 <= Len(cs) /\ cs[last + 1] = "."
              THEN FirstNonDigit(cs, last + 2) - 1
              ELSE last + 1,
              LAMBDA fracLast :
            Let(IF start <= Len(cs) /\ cs[start] = "-" THEN -1 ELSE 1, LAMBDA sign :
              IF last < first /\ fracLast < last + 2
              THEN JNaN
              ELSE IF DigitsValue(cs, last + 2, fracLast) = 0
              THEN JNum(sign * DigitsValue(cs, first, last))
              ELSE Literal(sign * (DigitsValue(cs, first, last) * 10 ^ (fracLast - last - 1)
                                     + DigitsValue(cs, last + 2, fracLast)),
                           10 ^ (fracLast - last - 1))))))))

parseFloat(v) == IF v = Undefined THEN JNaN ELSE DecimalPrefix(v)

parseInt(v) == IF v = Undefined THEN JNaN ELSE NumericPrefix(v)

\* Number to string, for whole numbers and NaN
RECURSIVE NatToString(_)
NatToString(n) ==
  IF n < 10
  THEN SubSeq("0123456789", n + 1, n + 1)
  ELSE NatToString(n \div 10) \o SubSeq("0123456789", (n % 10) + 1, (n % 10) + 1)

NumberToString(x) ==
  IF x.nan THEN "NaN"
  ELSE IF x.v < 0 THEN "-" \o NatToString(-x.v)
  ELSE NatToString(x.v)

\* String.prototype.split on a one-character separator
split(str, separator) ==
  Let(Chars(str), LAMBDA cs :
    Let({i \in 1..Len(cs) : cs[i] = separator}, LAMBDA P :
      LET Nth(k) == CHOOSE p \in P : Cardinality({q \in P : q < p}) = k - 1
          lo(k)  == IF k = 1 THEN 1 ELSE Nth(k - 1) + 1
          hi(k)  == IF k = Cardinality(P) + 1 THEN Len(cs) ELSE Nth(k) - 1
      IN  SubSeq([k \in 1..(Cardinality(P) + 1) |-> SubSeq(str, lo(k), hi(k))],
                 1, Cardinality(P) + 1)))

\* array[i] for a zero-based index: undefined past the end
At(array, i) == IF i + 1 <= Len(array) THEN array[i + 1] ELSE Undefined

IsLeapYear(y) == (y % 4 = 0 /\ y % 100 # 0) \/ y % 400 = 0

\* month is zero-based
DaysInMonth(y, m) ==
  IF m = 1 THEN (IF IsLeapYear(y) THEN 29 ELSE 28)
  ELSE IF m \in {3, 5, 8, 10} THEN 30
  ELSE 31

\* a day number outside the month runs over into the neighbouring months
RECURSIVE NormalizeDay(_, _, _)
NormalizeDay(y, m, d) ==
  IF d > DaysInMonth(y, m)
  THEN IF m = 11
       THEN NormalizeDay(y + 1, 0, d - DaysInMonth(y, m))
       ELSE NormalizeDay(y, m + 1, d - DaysInMonth(y, m))
  ELSE IF d < 1
  THEN IF m = 0
       THEN NormalizeDay(y - 1, 11, d + DaysInMonth(y - 1, 11))
       ELSE NormalizeDay(y, m - 1, d + DaysInMonth(y, m - 1))
  ELSE [valid |-> TRUE, year |-> y, month |-> m, day |-> d]

InvalidDate == [valid |-> FALSE, year |-> 0, month |-> 0, day |-> 0]

\* new Date(year, monthIndex, day) in local time
NewDate(y, m, d) ==
  Let(y, LAMBDA year : Let(m, LAMBDA monthIndex : Let(d, LAMBDA day :
    IF year.nan \/ monthIndex.nan \/ day.nan
    THEN InvalidDate
    ELSE LET yr == IF 0 <= year.v /\ year.v <= 99 THEN 1900 + year.v ELSE year.v
         IN  NormalizeDay(yr + (monthIndex.v \div 12), monthIndex.v % 12, day.v))))

getFullYear(date) == IF date.valid THEN JNum(date.year) ELSE JNaN

\* a parsed CSV row, as Papa.parse hands it over with header: true
Row(cost, date, event, storm, installation) ==
  [Cost |-> cost, DateOfWeatherEvent |-> date, WeatherEvent |-> event,
   NamedStorm |-> storm, Installation |-> installation]

\* what the map callback returns from its catch block
nullItem == [null |-> TRUE]

\* `${value}` of a field
TemplateText(v) == IF v = Undefined THEN "undefined" ELSE v

\* the first filter without its isNaN test
HasAnyCostAndDate(item) ==
  Truthy(item.Cost) /\ Truthy(item.DateOfWeatherEvent)

\* the first filter of cleanedData
HasCostAndDate(item) ==
  LET hasCost == Truthy(item.Cost) /\ ~isNaN(parseFloat(item.Cost))
      hasDate == Truthy(item.DateOfWeatherEvent)
  IN  hasCost /\ hasDate

\* the map callback of cleanedData
TransformRow(row) ==
  Let(row, LAMBDA item :
    IF item.DateOfWeatherEvent = Undefined
    THEN nullItem   \* undefined.split throws; the catch block returns null
    ELSE Let(split(item.DateOfWeatherEvent, "/"), LAMBDA dateParts :
           Let(NewDate(JAdd(JNum(2000), parseInt(At(dateParts, 2))),
                       JSub(parseInt(At(dateParts, 0)), JNum(1)),
                       parseInt(At(dateParts, 1))), LAMBDA date :
             [Cost               |-> parseFloat(item.Cost),
              DateOfWeatherEvent |-> item.DateOfWeatherEvent,
              WeatherEvent       |-> item.WeatherEvent,
              NamedStorm         |-> item.NamedStorm,
              Installation       |-> item.Installation,
              Year               |-> getFullYear(date),
              date               |-> date,
              weatherEventFull   |->
                IF Truthy(item.NamedStorm)
                THEN TemplateText(item.WeatherEvent) \o " (" \o TemplateText(item.NamedStorm) \o ")"
                ELSE item.WeatherEvent])))

cleanedData(data) ==
  Let(SelectSeq(data, HasCostAndDate), LAMBDA kept :
    Let(SubSeq([i \in 1..Len(kept) |-> TransformRow(kept[i])], 1, Len(kept)), LAMBDA mapped :
      SelectSeq(mapped, LAMBDA item : item # nullItem)))

(***************************************************************************)
(* The ingestion of the README's component: the filter looks at Cost only  *)
(* and the map callback has no try block.                                  *)
(***************************************************************************)
\* the rows the README's filter keeps
readmeKept(data) ==
  SelectSeq(data, LAMBDA item : Truthy(item.Cost) /\ ~isNaN(parseFloat(item.Cost)))

\* item['Date of Weather Event'].split throws on a row that has no date
readmeThrows(data) ==
  Let(readmeKept(data), LAMBDA kept :
    \E i \in 1..Len(kept) : kept[i].DateOfWeatherEvent = Undefined)

\* cleanedData of the README, for data on which the map callback does not throw
readmeCleanedData(data) ==
  Let(readmeKept(data), LAMBDA kept :
    SubSeq([i \in 1..Len(kept) |-> TransformRow(kept[i])], 1, Len(kept)))

(***************************************************************************)
(* The ingestion of the part_001 component, whose rows have a Year column. *)
(***************************************************************************)
\* a parsed CSV row of a file with a Year column
YearRow(cost, date, event, storm, installation, year) ==
  [Cost |-> cost, DateOfWeatherEvent |-> date, WeatherEvent |-> event,
   NamedStorm |-> storm, Installation |-> installation, Year |-> year]

\* new Date(dateString): M/D/Y is not the ISO format, so a build either reads
\* it in the legacy way (a year below 50 is 20xx, below 100 is 19xx) or
\* gives an invalid date
DateFromString(text, legacy) ==
  IF ~legacy \/ ~Truthy(text)
  THEN InvalidDate
  ELSE Let(split(text, "/"), LAMBDA parts :
         IF Len(parts) # 3 \/ \E k \in 1..3 : parts[k] = "" \/ ~AllDigits(parts[k])
         THEN InvalidDate
         ELSE Let(parseInt(parts[1]).v, LAMBDA month :
                Let(parseInt(parts[2]).v, LAMBDA day :
                  Let(parseInt(parts[3]).v, LAMBDA yy :
                    IF month \notin 1..12 \/ day \notin 1..31
                    THEN InvalidDate
                    ELSE NormalizeDay(IF yy < 50 THEN 2000 + yy
                                      ELSE IF yy < 100 THEN 1900 + yy ELSE yy,
                                      month - 1, day)))))

\* the map callback of part_001 with the date as the only source of the year
TransformYearRowFromDate(row, legacy) ==
  Let(row, LAMBDA item :
    [Cost               |-> parseFloat(item.Cost),
     DateOfWeatherEvent |-> item.DateOfWeatherEvent,
     WeatherEvent       |-> item.WeatherEvent,
     NamedStorm         |-> item.NamedStorm,
     Installation       |-> item.Installation,
     Year               |-> getFullYear(DateFromString(item.DateOfWeatherEvent, legacy)),
     date               |-> DateFromString(item.DateOfWeatherEvent, legacy)])

\* the map callback of part_001
TransformYearRow(row, legacy) ==
  Let(row, LAMBDA item :
    [Cost               |-> parseFloat(item.Cost),
     DateOfWeatherEvent |-> item.DateOfWeatherEvent,
     WeatherEvent       |-> item.WeatherEvent,
     NamedStorm         |-> item.NamedStorm,
     Installation       |-> item.Installation,
     Year               |-> IF Truthy(item.Year)
                            THEN parseFloat(item.Year)
                            ELSE getFullYear(DateFromString(item.DateOfWeatherEvent, legacy)),
     date               |-> DateFromString(item.DateOfWeatherEvent, legacy)])

\* cleanedData of part_001
cleanedYearData(data, legacy) ==
  Let(SelectSeq(data, LAMBDA item : Truthy(item.Cost) /\ ~isNaN(parseFloat(item.Cost))),
      LAMBDA kept :
    SubSeq([i \in 1..Len(kept) |-> TransformYearRow(kept[i], legacy)], 1, Len(kept)))

(***************************************************************************)
(* The lodash operations of the views.  A grouping is a sequence of        *)
(* [key, items] in the order in which _.map walks the object _.groupBy     *)
(* built: keys that are array indices first, ascending, then the others    *)
(* in the order of their first occurrence.  Keys of the model have at      *)
(* most nine characters when they are digits only.                         *)
(***************************************************************************)
\* the characters of the names of the model, by ascending UTF-16 code unit
CodeOrder == " -0123456789ABCDEFGHIJKLMNOPQRSTUVWXYZabcdefghijklmnopqrstuvwxyz"

\* a < b on strings: by UTF-16 code units
StringLess(a, b) ==
  Let(Chars(a), LAMBDA ca : Let(Chars(b), LAMBDA cb :
    \E i \in 1..(Len(cb)) :
      /\ \A j \in 1..(i - 1) : j <= Len(ca) /\ ca[j] = cb[j]
      /\ i > Len(ca) \/ IndexIn(CodeOrder, ca[i]) < IndexIn(CodeOrder, cb[i])))

\* the key is a canonical array index
IsArrayIndex(key) ==
  AllDigits(key) /\ (Len(key) = 1 \/ SubSeq(key, 1, 1) # "0")

NthSmallest(I, n) == CHOOSE i \in I : Cardinality({j \in I : j < i}) = n - 1

\* the distinct keys in the enumeration order of the object's properties
OrderedKeys(keys) ==
  Let({i \in 1..Len(keys) : \A j \in 1..(i - 1) : keys[j] # keys[i]}, LAMBDA first :
    Let({i \in first : IsArrayIndex(keys[i])}, LAMBDA indices :
      LET rank(i) ==
            IF i \in indices
            THEN 1 + Cardinality({j \in indices : parseInt(keys[j]).v < parseInt(keys[i]).v})
            ELSE 1 + Cardinality(indices) + Cardinality({j \in first \ indices : j < i})
      IN  SubSeq([n \in 1..Cardinality(first) |-> keys[CHOOSE i \in first : rank(i) = n]],
                 1, Cardinality(first))))

\* _.groupBy(collection, iteratee), keys[i] being iteratee(collection[i])
groupBy(array, iteratees) ==
  Let(array, LAMBDA collection : Let(SubSeq(iteratees, 1, Len(iteratees)), LAMBDA keys :
    Let(OrderedKeys(keys), LAMBDA ordered :
      SubSeq([n \in 1..Len(ordered) |->
                Let({i \in 1..Len(keys) : keys[i] = ordered[n]}, LAMBDA I :
                  [key   |-> ordered[n],
                   items |-> SubSeq([m \in 1..Cardinality(I) |-> collection[NthSmallest(I, m)]],
                                    1, Cardinality(I))])],
             1, Len(ordered)))))

\* _.sumBy(items, 'Cost')
RECURSIVE SumCostFrom(_, _)
SumCostFrom(items, i) ==
  IF i = 0 THEN JNum(0) ELSE JAdd(SumCostFrom(items, i - 1), items[i].Cost)

sumBy(items) == Let(items, LAMBDA array : SumCostFrom(array, Len(array)))

\* Math.round((value / total) * 100)
Percentage(value, total) ==
  IF IsDouble(value) \/ IsDouble(total)
  THEN DRound(DMulInt(DDiv(ToDouble(value), ToDouble(total)), 100))
  ELSE IF value.nan \/ total.nan
  THEN NaN
  ELSE DRound(DMulInt(DDivInt(FromInt(value.v), total.v), 100))

\* _.orderBy(entries, ['value'], ['desc']): stable
orderBy(entries) ==
  Let(entries, LAMBDA array :
    LET rank(i) == 1 + Cardinality({j \in 1..Len(array) :
                        \/ JLess(array[i].value, array[j].value)
                        \/ ~JLess(array[j].value, array[i].value) /\ j < i})
    IN  SubSeq([n \in 1..Len(array) |-> array[CHOOSE i \in 1..Len(array) : rank(i) = n]],
               1, Len(array)))

\* _.sortBy(entries, 'name') on string names: stable
sortBy(entries) ==
  Let(entries, LAMBDA array :
    LET rank(i) == 1 + Cardinality({j \in 1..Len(array) :
                        \/ StringLess(array[j].name, array[i].name)
                        \/ array[j].name = array[i].name /\ j < i})
    IN  SubSeq([n \in 1..Len(array) |-> array[CHOOSE i \in 1..Len(array) : rank(i) = n]],
               1, Len(array)))

\* .slice(0, n)
slice(array, n) == SubSeq(array, 1, IF n < Len(array) THEN n ELSE Len(array))

(***************************************************************************)
(* The scenario calculator.                                                *)
(***************************************************************************)
baseProjection == 24500000

\* the catalog; reduction is the literal as JavaScript reads it
scenarios ==
  << [id |-> "scenario1", name |-> "Enhanced stormwater infrastructure",
      reduction |-> Literal(25, 100), cost |-> 2000000, type |-> "flood"],
     [id |-> "scenario2", name |-> "Wind-resistant building upgrades",
      reduction |-> Literal(40, 100), cost |-> 3500000, type |-> "hurricane"],
     [id |-> "scenario3", name |-> "Wildfire prevention measures",
      reduction |-> Literal(30, 100), cost |-> 1500000, type |-> "fire"],
     [id |-> "scenario4", name |-> "Winter weather preparedness",
      reduction |-> Literal(20, 100), cost |-> 1000000, type |-> "winter"] >>

ScenarioIds == {scenarios[i].id : i \in 1..Len(scenarios)}

\* scenarios.find(s => s.id === scenarioId): the index of the first match, 0 for none
FindScenario(scenarioId) ==
  IF \E i \in 1..Len(scenarios) : scenarios[i].id = scenarioId
  THEN CHOOSE i \in 1..Len(scenarios) :
         scenarios[i].id = scenarioId /\ \A j \in 1..(i - 1) : scenarios[j].id # scenarioId
  ELSE 0

\* the forEach loop: totalReduction and totalCost after the first i ids.
\* totalCost is a sum of integers far below 2^53, exact in binary64.
RECURSIVE Accumulate(_, _)
Accumulate(selected, i) ==
  IF i = 0
  THEN [totalReduction |-> Zero, totalCost |-> 0]
  ELSE Let(Accumulate(selected, i - 1), LAMBDA acc :
         Let(FindScenario(selected[i]), LAMBDA k :
           IF k = 0
           THEN acc
           ELSE [totalReduction |-> DAdd(acc.totalReduction, scenarios[k].reduction),
                 totalCost      |-> acc.totalCost + scenarios[k].cost]))

\* calculateScenarioImpact with the total reduction divided by the size of
\* the catalog instead of the size of the selection
calculateScenarioImpactOverCatalog(selectedIds) ==
  Let(selectedIds, LAMBDA selected :
    Let(Accumulate(selected, Len(selected)), LAMBDA acc :
      Let(DMulInt(DSub(FromInt(1), DDivInt(acc.totalReduction, Len(scenarios))),
                  baseProjection), LAMBDA reducedCost :
        [currentProjection |-> baseProjection,
         withMitigation    |-> reducedCost,
         savings           |-> DSub(FromInt(baseProjection), reducedCost),
         cost              |-> acc.totalCost])))

\* calculateScenarioImpact with the total reduction applied undivided
calculateScenarioImpactUndivided(selectedIds) ==
  Let(selectedIds, LAMBDA selected :
    Let(Accumulate(selected, Len(selected)), LAMBDA acc :
      Let(DMulInt(DSub(FromInt(1), acc.totalReduction), baseProjection),
          LAMBDA reducedCost :
        [currentProjection |-> baseProjection,
         withMitigation    |-> reducedCost,
         savings           |-> DSub(FromInt(baseProjection), reducedCost),
         cost              |-> acc.totalCost])))

calculateScenarioImpact(selectedIds) ==
  Let(selectedIds, LAMBDA selected :
    Let(Accumulate(selected, Len(selected)), LAMBDA acc :
      Let(DMulInt(DSub(FromInt(1), DDivInt(acc.totalReduction, Len(selected))),
                  baseProjection), LAMBDA reducedCost :
        Let(DSub(FromInt(baseProjection), reducedCost), LAMBDA savings :
          [currentProjection |-> baseProjection,
           withMitigation    |-> reducedCost,
           savings           |-> savings,
           cost              |-> acc.totalCost]))))

(***************************************************************************)
(* The component state (useState) and the position of fetchData.           *)
(***************************************************************************)
VARIABLES
  pc,                  \* fetchData: "fetch" (awaiting fetch), "text" (awaiting
                       \* response.text() and the parse), "done"
  csvData,             \* results.data as handed to the complete callback
  weatherData,
  loading,
  error,
  selectedYear,
  selectedWeatherType,
  activeTab,
  selectedScenarios,
  scenarioResults,
  costByWeatherType,
  weatherEventsByCost,
  costTrend,
  executed,            \* the dependent computations that the latest run of the
                       \* component body and of its effects has executed
  description,         \* the argument of a classifier call (SpecClassify)
  category             \* and its result

vars == <<pc, csvData, weatherData, loading, error, selectedYear,
          selectedWeatherType, activeTab, selectedScenarios, scenarioResults,
          costByWeatherType, weatherEventsByCost, costTrend, executed, description,
          category>>

loadVars == <<pc, csvData, weatherData, loading, error>>

filterVars == <<selectedYear, selectedWeatherType, activeTab>>

scenarioVars == <<selectedScenarios, scenarioResults>>

viewVars == <<costByWeatherType, weatherEventsByCost, costTrend>>

classifierVars == <<description, category>>

\* category before the classifier has returned
NotClassified == "<pending>"

(***************************************************************************)
(* Inputs.  DashboardRows are the rows a load of the dashboard may         *)
(* deliver, at most MaxRows of them; IngestInputs is the wider space the   *)
(* ingestion alone is checked on: every single row built from CostTexts    *)
(* and DateTexts, and every pair of rows that differ in cost text only.    *)
(***************************************************************************)
MaxRows == 2

DashboardRows ==
  { Row("1000", "01/15/23", "Hurricane Ian", "", "Fort Bragg"),
    Row("abc", "02/01/23", "Flood", "", "Fort Hood"),
    Row("500", "03/10/24", "Winter Storm", "Uri", "Fort Hood") }

DashboardInputs == UNION {[1..n -> DashboardRows] : n \in 0..MaxRows}

CostTexts == {Undefined, "", "1000", "0", "abc", "12abc", "-5", " 7"}

MonthTexts == {"01", "02", "12", "13", "00", "ab"}

DayTexts == {"01", "15", "29", "31", "32", "00"}

YearTexts == {"00", "23", "24", "99"}

DateTexts ==
  {Undefined, "", "abc", "01/15", "2023-01-15"}
    \cup {mm \o "/" \o dd \o "/" \o yy : mm \in MonthTexts, dd \in DayTexts, yy \in YearTexts}

IngestInputs ==
  {<<Row(c, d, "Hurricane Ian", "", "Fort Bragg")>> : c \in CostTexts, d \in DateTexts}
    \cup {<<Row(c1, "01/15/23", "Hurricane Ian", "", "Fort Bragg"),
            Row(c2, "02/01/23", "Flood", "", "Fort Hood")>> : c1, c2 \in CostTexts}

(***************************************************************************)
(* The filter stage and the views.                                         *)
(***************************************************************************)
\* weatherData.filter(...) as part_001 has it: the raw description is compared
FilterDataRaw(data, year, type) ==
  SelectSeq(data, LAMBDA item :
    /\ ~(year # "all" /\ ~JStrictEq(item.Year, parseFloat(year)))
    /\ ~(type # "all" /\ item.WeatherEvent # type))

\* weatherData.filter(...) for a year selection and a type selection
FilterData(data, year, type) ==
  SelectSeq(data, LAMBDA item :
    /\ ~(year # "all" /\ ~JStrictEq(item.Year, parseFloat(year)))
    /\ ~(type # "all" /\ normalizeWeatherType(item.WeatherEvent) # type))

filteredData == FilterData(weatherData, selectedYear, selectedWeatherType)

\* eventsByCost
EventsByCost(array) ==
  Let(array, LAMBDA filtered :
    Let(groupBy(filtered, [i \in 1..Len(filtered) |-> TemplateText(filtered[i].weatherEventFull)]),
        LAMBDA groups :
      orderBy([n \in 1..Len(groups) |->
                 [name           |-> groups[n].key,
                  value          |-> sumBy(groups[n].items),
                  normalizedType |-> normalizeWeatherType(groups[n].items[1].WeatherEvent)]])))

\* typeData without the .orderBy, as part_001 has it
TypeDataUnordered(array) ==
  Let(array, LAMBDA filtered :
    Let(groupBy(filtered,
                [i \in 1..Len(filtered) |-> normalizeWeatherType(filtered[i].WeatherEvent)]),
        LAMBDA groups :
      SubSeq([n \in 1..Len(groups) |->
                [name       |-> groups[n].key,
                 value      |-> sumBy(groups[n].items),
                 percentage |-> Percentage(sumBy(groups[n].items), sumBy(filtered))]],
             1, Len(groups))))

\* typeData
TypeData(array) ==
  Let(array, LAMBDA filtered :
    Let(groupBy(filtered,
                [i \in 1..Len(filtered) |-> normalizeWeatherType(filtered[i].WeatherEvent)]),
        LAMBDA groups :
      orderBy([n \in 1..Len(groups) |->
                 [name       |-> groups[n].key,
                  value      |-> sumBy(groups[n].items),
                  percentage |-> Percentage(sumBy(groups[n].items), sumBy(filtered))]])))

\* trendData counting one event per year
TrendDataCountingYears(array) ==
  Let(array, LAMBDA filtered :
    Let(groupBy(filtered, [i \in 1..Len(filtered) |-> NumberToString(filtered[i].Year)]),
        LAMBDA groups :
      sortBy([n \in 1..Len(groups) |->
                [name  |-> groups[n].key,
                 value |-> sumBy(groups[n].items),
                 count |-> 1]])))

\* trendData
TrendData(array) ==
  Let(array, LAMBDA filtered :
    Let(groupBy(filtered, [i \in 1..Len(filtered) |-> NumberToString(filtered[i].Year)]),
        LAMBDA groups :
      sortBy([n \in 1..Len(groups) |->
                [name  |-> groups[n].key,
                 value |-> sumBy(groups[n].items),
                 count |-> Len(groups[n].items)]])))

\* costByInstallation without the .slice(0, 10)
costByInstallationUntruncated ==
  Let(filteredData, LAMBDA filtered :
    Let(groupBy(filtered, [i \in 1..Len(filtered) |-> TemplateText(filtered[i].Installation)]),
        LAMBDA groups :
      orderBy([n \in 1..Len(groups) |->
                 [name  |-> groups[n].key,
                  value |-> sumBy(groups[n].items)]])))

\* costByInstallation: the top 10 installations by cost
costByInstallation ==
  Let(filteredData, LAMBDA filtered :
    Let(groupBy(filtered, [i \in 1..Len(filtered) |-> TemplateText(filtered[i].Installation)]),
        LAMBDA groups :
      slice(orderBy([n \in 1..Len(groups) |->
                       [name  |-> groups[n].key,
                        value |-> sumBy(groups[n].items)]]), 10)))

\* the summary figures of the README's dashboard
totalCost == sumBy(filteredData)

avgCostPerEvent == DDivInt(ToDouble(totalCost), Len(filteredData))

\* the effect on [weatherData, selectedYear, selectedWeatherType], run with
\* the values of the render that follows the state change
UpdateViews(data, year, type) ==
  IF Len(data) > 0
  THEN /\ weatherEventsByCost' = EventsByCost(FilterData(data, year, type))
       /\ costByWeatherType' = TypeData(FilterData(data, year, type))
       /\ costTrend' = TrendData(FilterData(data, year, type))
  ELSE UNCHANGED viewVars

(***************************************************************************)
(* fetchData (useEffect with no dependencies: it runs once).               *)
(***************************************************************************)
\* the effect's three aggregations
Aggregations == {"eventsByCost", "typeData", "trendData"}

\* one run of the component body with the aggregations outside the guard, as
\* the README's component computes them
ComponentPassUnguarded(data) ==
  {"filteredData", "years", "weatherTypes"} \cup Aggregations

\* one run of the component body and of its effects on the event set data:
\* the body filters before it looks at loading, the effect aggregates behind
\* its guard
ComponentPass(data) ==
  {"filteredData", "years", "weatherTypes"}
    \cup IF Len(data) > 0 THEN Aggregations ELSE {}

\* the catch block without its setLoading(false)
CatchFetchErrorStillLoading(message) ==
  /\ error' = "Error fetching data: " \o message
  /\ loading' = loading
  /\ pc' = "done"

\* the catch block of fetchData
CatchFetchError(message) ==
  /\ error' = "Error fetching data: " \o message
  /\ loading' = FALSE
  /\ pc' = "done"

\* fetch() rejects
FetchRejects ==
  /\ pc = "fetch"
  /\ CatchFetchError("Failed to fetch")
  /\ UNCHANGED <<csvData, weatherData, filterVars, scenarioVars, viewVars, classifierVars>>
  /\ executed' = ComponentPass(weatherData)

\* fetch() resolves with a response that is not ok: fetchData throws
ResponseNotOk ==
  /\ pc = "fetch"
  /\ CatchFetchError("HTTP error! status: 404")
  /\ UNCHANGED <<csvData, weatherData, filterVars, scenarioVars, viewVars, classifierVars>>
  /\ executed' = ComponentPass(weatherData)

ResponseOk ==
  /\ pc = "fetch"
  /\ pc' = "text"
  /\ UNCHANGED <<csvData, weatherData, loading, error, filterVars, scenarioVars,
                 viewVars, executed, classifierVars>>

\* response.text() rejects
TextRejects ==
  /\ pc = "text"
  /\ CatchFetchError("Failed to read body")
  /\ UNCHANGED <<csvData, weatherData, filterVars, scenarioVars, viewVars, classifierVars>>
  /\ executed' = ComponentPass(weatherData)

\* the complete callback without its setLoading(false)
ParseCompleteStillLoading(data) ==
  /\ pc = "text"
  /\ csvData' = data
  /\ IF Len(cleanedData(data)) = 0
     THEN /\ CatchFetchError("No valid data after cleaning")
          /\ UNCHANGED <<weatherData, viewVars>>
          /\ executed' = ComponentPass(weatherData)
     ELSE /\ weatherData' = cleanedData(data)
          /\ pc' = "done"
          /\ UpdateViews(cleanedData(data), selectedYear, selectedWeatherType)
          /\ executed' = ComponentPass(cleanedData(data))
          /\ UNCHANGED <<loading, error>>
  /\ UNCHANGED <<filterVars, scenarioVars, classifierVars>>

\* Papa.parse calls complete(results), synchronously inside the try block:
\* the Error thrown on an empty cleaned set lands in the catch block
ParseComplete(data) ==
  /\ pc = "text"
  /\ csvData' = data
  /\ IF Len(cleanedData(data)) = 0
     THEN /\ CatchFetchError("No valid data after cleaning")
          /\ UNCHANGED <<weatherData, viewVars>>
          /\ executed' = ComponentPass(weatherData)
     ELSE /\ weatherData' = cleanedData(data)
          /\ loading' = FALSE
          /\ pc' = "done"
          /\ UpdateViews(cleanedData(data), selectedYear, selectedWeatherType)
          /\ executed' = ComponentPass(cleanedData(data))
          /\ UNCHANGED error
  /\ UNCHANGED <<filterVars, scenarioVars, classifierVars>>

\* the error callback starting the fetch again
ParseErrorRetry ==
  /\ pc = "text"
  /\ error' = "Error parsing CSV data: " \o "parse failure"
  /\ loading' = TRUE
  /\ pc' = "fetch"
  /\ UNCHANGED <<csvData, weatherData, filterVars, scenarioVars, viewVars, classifierVars>>
  /\ executed' = ComponentPass(weatherData)

\* Papa.parse calls error(error)
ParseError ==
  /\ pc = "text"
  /\ error' = "Error parsing CSV data: " \o "parse failure"
  /\ loading' = FALSE
  /\ pc' = "done"
  /\ UNCHANGED <<csvData, weatherData, filterVars, scenarioVars, viewVars, classifierVars>>
  /\ executed' = ComponentPass(weatherData)

\* the complete callback of part_001: nothing is thrown on an empty cleaned
\* set, and the aggregates are not state but computed in the component body
ParseYearDataComplete(data, legacy) ==
  /\ pc = "text"
  /\ csvData' = data
  /\ weatherData' = cleanedYearData(data, legacy)
  /\ loading' = FALSE
  /\ pc' = "done"
  /\ executed' = {"filteredData", "years", "weatherTypes"} \cup Aggregations
  /\ UNCHANGED <<error, filterVars, scenarioVars, viewVars, classifierVars>>

\* the complete callback of the README: an exception of the map callback
\* lands in the catch block, an empty cleaned set is stored like any other,
\* and the aggregates are computed in the component body
ParseReadmeComplete(data) ==
  /\ pc = "text"
  /\ csvData' = data
  /\ IF readmeThrows(data)
     THEN /\ CatchFetchError("Cannot read properties of undefined (reading 'split')")
          /\ UNCHANGED <<weatherData, viewVars>>
     ELSE /\ weatherData' = readmeCleanedData(data)
          /\ loading' = FALSE
          /\ pc' = "done"
          /\ UpdateViews(readmeCleanedData(data), selectedYear, selectedWeatherType)
          /\ UNCHANGED error
  /\ executed' = ComponentPassUnguarded(data)
  /\ UNCHANGED <<filterVars, scenarioVars, classifierVars>>

(***************************************************************************)
(* The handlers.  They are reachable from the rendered component only,     *)
(* which is not rendered while loading or after an error.                  *)
(***************************************************************************)
Rendered == ~loading /\ error = null

\* the option lists of the selectors
years == {weatherData[i].Year : i \in 1..Len(weatherData)}

weatherTypes == {normalizeWeatherType(weatherData[i].WeatherEvent) : i \in 1..Len(weatherData)}

\* setSelectedYear with the filter applied to weatherData itself
setSelectedYearInPlace(value) ==
  /\ Rendered
  /\ selectedYear' = value
  /\ weatherData' = FilterData(weatherData, value, selectedWeatherType)
  /\ UpdateViews(weatherData, value, selectedWeatherType)
  /\ executed' = ComponentPass(FilterData(weatherData, value, selectedWeatherType))
  /\ UNCHANGED <<pc, csvData, loading, error, selectedWeatherType, activeTab, scenarioVars,
                 classifierVars>>

setSelectedYear(value) ==
  /\ Rendered
  /\ selectedYear' = value
  /\ UpdateViews(weatherData, value, selectedWeatherType)
  /\ UNCHANGED <<loadVars, selectedWeatherType, activeTab, scenarioVars, classifierVars>>
  /\ executed' = ComponentPass(weatherData)

\* setSelectedWeatherType without the effect that follows it
setSelectedWeatherTypeNoEffect(value) ==
  /\ Rendered
  /\ selectedWeatherType' = value
  /\ UNCHANGED <<loadVars, selectedYear, activeTab, scenarioVars, viewVars, classifierVars>>
  /\ executed' = {"filteredData", "years", "weatherTypes"}

setSelectedWeatherType(value) ==
  /\ Rendered
  /\ selectedWeatherType' = value
  /\ UpdateViews(weatherData, selectedYear, value)
  /\ UNCHANGED <<loadVars, selectedYear, activeTab, scenarioVars, classifierVars>>
  /\ executed' = ComponentPass(weatherData)

setActiveTab(tab) ==
  /\ Rendered
  /\ activeTab' = tab
  /\ UNCHANGED <<loadVars, selectedYear, selectedWeatherType, scenarioVars, viewVars, classifierVars>>
  /\ executed' = ComponentPass(weatherData)

Includes(array, x) == \E i \in 1..Len(array) : array[i] = x

\* handleScenarioChange that adds the id whether or not it is selected
handleScenarioChangeAppending(scenarioId) ==
  /\ Rendered
  /\ scenarioResults' = calculateScenarioImpact(Append(selectedScenarios, scenarioId))
  /\ selectedScenarios' = Append(selectedScenarios, scenarioId)
  /\ UNCHANGED <<loadVars, filterVars, viewVars, classifierVars>>
  /\ executed' = ComponentPass(weatherData)

handleScenarioChange(scenarioId) ==
  LET newSelection == IF Includes(selectedScenarios, scenarioId)
                      THEN SelectSeq(selectedScenarios, LAMBDA id : id # scenarioId)
                      ELSE Append(selectedScenarios, scenarioId)
  IN  /\ Rendered
      /\ scenarioResults' = calculateScenarioImpact(newSelection)
      /\ selectedScenarios' = newSelection
      /\ UNCHANGED <<loadVars, filterVars, viewVars, classifierVars>>
      /\ executed' = ComponentPass(weatherData)

runScenario ==
  /\ Rendered
  /\ scenarioResults' = calculateScenarioImpact(selectedScenarios)
  /\ UNCHANGED <<selectedScenarios, loadVars, filterVars, viewVars, classifierVars>>
  /\ executed' = ComponentPass(weatherData)

applyOptimalScenario ==
  /\ Rendered
  /\ selectedScenarios' = [i \in 1..Len(scenarios) |-> scenarios[i].id]
  /\ scenarioResults' = calculateScenarioImpact([i \in 1..Len(scenarios) |-> scenarios[i].id])
  /\ UNCHANGED <<loadVars, filterVars, viewVars, classifierVars>>
  /\ executed' = ComponentPass(weatherData)

(***************************************************************************)
(* The dashboard.                                                          *)
(***************************************************************************)
Init ==
  /\ pc = "fetch"
  /\ csvData = <<>>
  /\ weatherData = <<>>
  /\ loading = TRUE
  /\ error = null
  /\ selectedYear = "all"
  /\ selectedWeatherType = "all"
  /\ activeTab = "damage-forecast"
  /\ selectedScenarios = <<>>
  /\ scenarioResults = [currentProjection |-> 24500000,
                        withMitigation    |-> FromInt(24500000),
                        savings           |-> Zero]
  /\ costByWeatherType = <<>>
  /\ weatherEventsByCost = <<>>
  /\ costTrend = <<>>
  /\ executed = ComponentPass(<<>>)
  /\ description = Undefined
  /\ category = NotClassified

Next ==
  \/ FetchRejects
  \/ ResponseNotOk
  \/ ResponseOk
  \/ TextRejects
  \/ \E data \in DashboardInputs : ParseComplete(data)
  \/ ParseError
  \/ \E value \in {"all"} \cup {NumberToString(y) : y \in years} : setSelectedYear(value)
  \/ \E value \in {"all"} \cup weatherTypes : setSelectedWeatherType(value)
  \/ \E tab \in {"damage-forecast", "event-analysis"} : setActiveTab(tab)
  \/ \E scenarioId \in ScenarioIds : handleScenarioChange(scenarioId)
  \/ runScenario
  \/ applyOptimalScenario

Spec == Init /\ [][Next]_vars

(***************************************************************************)
(* The ingestion alone, over IngestInputs.                                 *)
(***************************************************************************)
IngestNext ==
  \/ ResponseOk
  \/ \E data \in IngestInputs : ParseComplete(data)

SpecIngest == Init /\ [][IngestNext]_vars

(***************************************************************************)
(* The classifier alone: one call per behaviour, on a description made of  *)
(* at most MaxWords fragments.                                             *)
(***************************************************************************)
MaxWords == 2

Fragments ==
  {"Hurricane", "Tropical", "cyclone", "Mawar", "Winter", "snow", "ice", "Storm",
   "wind", "Nor'easter", "Atmospheric River", "Flood", "rain", "TORNADO", "Torando", "TORANDO", "warning",
   "hail", "Wildfire", "Earthquake", "Heat Wave", "Drought", "Tropical Storm",
   "with high wind", " "}

RECURSIVE Join(_, _)
Join(words, i) ==
  IF i = 0 THEN ""
  ELSE IF i = 1 THEN words[1]
  ELSE Join(words, i - 1) \o " " \o words[i]

Descriptions ==
  {Undefined, null, ""}
    \cup {Join(words, Len(words)) : words \in UNION {[1..n -> Fragments] : n \in 1..MaxWords}}

ClassifyInit ==
  /\ pc = "fetch"
  /\ csvData = <<>>
  /\ weatherData = <<>>
  /\ loading = TRUE
  /\ error = null
  /\ selectedYear = "all"
  /\ selectedWeatherType = "all"
  /\ activeTab = "damage-forecast"
  /\ selectedScenarios = <<>>
  /\ scenarioResults = [currentProjection |-> 24500000,
                        withMitigation    |-> FromInt(24500000),
                        savings           |-> Zero]
  /\ costByWeatherType = <<>>
  /\ weatherEventsByCost = <<>>
  /\ costTrend = <<>>
  /\ executed = ComponentPass(<<>>)
  /\ description \in Descriptions
  /\ category = NotClassified

Classify ==
  /\ category = NotClassified
  /\ category' = normalizeWeatherType(description)
  /\ UNCHANGED <<loadVars, filterVars, scenarioVars, viewVars, executed, description>>

SpecClassify == ClassifyInit /\ [][Classify]_vars

(***************************************************************************)
(* The scenario planner alone: one load, then the scenario handlers and    *)
(* the tab switch.  The handlers are those the component defines; the      *)
(* README's and part_001's variants wire them to the checkboxes and the    *)
(* two buttons of the scenario tab.                                        *)
(***************************************************************************)
ScenarioData == <<Row("1000", "01/15/23", "Hurricane Ian", "", "Fort Bragg")>>

ScenarioNext ==
  \/ ResponseOk
  \/ ParseComplete(ScenarioData)
  \/ \E tab \in {"damage-forecast", "event-analysis"} : setActiveTab(tab)
  \/ \E scenarioId \in ScenarioIds : handleScenarioChange(scenarioId)
  \/ runScenario
  \/ applyOptimalScenario

SpecScenario == Init /\ [][ScenarioNext]_vars

(***************************************************************************)
(* Vocabulary of the scenario properties.                                  *)
(***************************************************************************)
\* the selections the handlers can build: catalog ids in any order, none twice
CatalogSelections ==
  {sel \in UNION {[1..n -> ScenarioIds] : n \in 0..Len(scenarios)} :
     \A i, j \in 1..Len(sel) : sel[i] = sel[j] => i = j}

\* the reduction of catalog entry k in percent, read back from the literal
ReductionPercents ==
  [k \in 1..Len(scenarios) |->
     CHOOSE p \in 0..100 : Literal(p, 100) = scenarios[k].reduction]

RECURSIVE SumPercent(_, _)
SumPercent(selected, i) ==
  IF i = 0 THEN 0
  ELSE SumPercent(selected, i - 1) + ReductionPercents[FindScenario(selected[i])]

RECURSIVE SumCost(_, _)
SumCost(selected, i) ==
  IF i = 0 THEN 0
  ELSE SumCost(selected, i - 1) + scenarios[FindScenario(selected[i])].cost

\* twelve times baseProjection * (1 - (sum of the reductions) / |selected|),
\* in exact arithmetic: a whole number for one to four selected scenarios
MitigatedTimes12(selected) ==
  (baseProjection \div 100) * (12 \div Len(selected))
    * (100 * Len(selected) - SumPercent(selected, Len(selected)))

\* |q * x - p| as a natural number scaled by 2^(-x.exp), for x > 0 with x.exp < 0
ScaledDistance(x, p, q) ==
  Let(MulBits(x.mant, q), LAMBDA a :
    Let(Strip(Zeros(-x.exp) \o NatBits(p)), LAMBDA b :
      IF LessBits(a, b) THEN SubBits(b, a) ELSE SubBits(a, b)))

\* x = p / q exactly
ExactlyRatio(x, p, q) ==
  /\ x.kind = "num" /\ x.sign = 0 /\ x.mant # <<>> /\ x.exp < 0
  /\ ScaledDistance(x, p, q) = <<>>

\* |x - p / q| < 2^-24
NearRatio(x, p, q) ==
  /\ x.kind = "num" /\ x.sign = 0 /\ x.mant # <<>> /\ x.exp < -24
  /\ LessBits(ScaledDistance(x, p, q), Zeros(-x.exp - 24) \o NatBits(q))

\* 2^k for k < 0
PowerOfTwo(k) == Num(0, Zeros(52) \o <<1>>, k - 52)

Range(seq) == {seq[i] : i \in 1..Len(seq)}

(* C1: calculateScenarioImpact on an empty selection returns withMitigation
   equal to the baseline 24,500,000 and savings 0, with no NaN in any field.
   Stated on the stored result of a computation (the result record of a
   computation carries the field cost, the initial record does not). *)
C1_EmptySelectionGivesBaseline ==
  (selectedScenarios = <<>> /\ "cost" \in DOMAIN scenarioResults)
    => /\ scenarioResults.withMitigation = FromInt(baseProjection)
       /\ scenarioResults.savings = Zero

(* C2: in every state reachable by toggles, Run Scenario and Apply Optimal
   Scenario, the stored scenarioResults equals calculateScenarioImpact of the
   current selection, field by field. *)
C2_ResultsMatchSelection ==
  \A field \in DOMAIN scenarioResults :
    scenarioResults[field] = calculateScenarioImpact(selectedScenarios)[field]

(* C3 (as amended): for every non-empty selection the stored result has
   currentProjection 24,500,000, cost equal to the sum of the selected
   implementation costs, and withMitigation and savings within 2^-24 of
   24,500,000 * (1 - sum/|S|) and of its complement; for scenario1 with
   scenario2 they are 16,537,500 + 2^-29 and 7,962,500 - 2^-29. *)
C3_ResultIsRoundedFormula ==
  selectedScenarios # <<>> =>
    /\ scenarioResults.currentProjection = baseProjection
    /\ scenarioResults.cost = SumCost(selectedScenarios, Len(selectedScenarios))
    /\ NearRatio(scenarioResults.withMitigation, MitigatedTimes12(selectedScenarios), 12)
    /\ NearRatio(scenarioResults.savings,
                 12 * baseProjection - MitigatedTimes12(selectedScenarios), 12)
    /\ Range(selectedScenarios) = {"scenario1", "scenario2"} =>
         /\ DSub(scenarioResults.withMitigation, FromInt(16537500)) = PowerOfTwo(-29)
         /\ DSub(FromInt(7962500), scenarioResults.savings) = PowerOfTwo(-29)

\* a computation on scenario1 with scenario2 has been stored
C3_Witness ==
  /\ selectedScenarios = <<"scenario1", "scenario2">>
  /\ scenarioResults.cost = 5500000
  /\ DLess(FromInt(16537500), scenarioResults.withMitigation)

(* C3 (as stated): for every non-empty selection withMitigation equals
   24,500,000 * (1 - sum/|S|) and savings its complement, exactly. *)
C3_ResultIsExactFormula ==
  selectedScenarios # <<>> =>
    /\ scenarioResults.currentProjection = baseProjection
    /\ scenarioResults.cost = SumCost(selectedScenarios, Len(selectedScenarios))
    /\ ExactlyRatio(scenarioResults.withMitigation, MitigatedTimes12(selectedScenarios), 12)
    /\ ExactlyRatio(scenarioResults.savings,
                    12 * baseProjection - MitigatedTimes12(selectedScenarios), 12)

(* C4 (as amended): no reachable selection gives a negative withMitigation:
   the total reduction is divided by the number of selected scenarios, so for
   every non-empty selection withMitigation is at least 24,500,000 * 0.6 =
   14,700,000 and at most the baseline. *)
C4_MitigatedNeverNegative ==
  selectedScenarios # <<>> =>
    /\ ~DLess(scenarioResults.withMitigation, FromInt(14700000))
    /\ ~DLess(FromInt(baseProjection), scenarioResults.withMitigation)

\* all four scenarios are selected and their result is stored
C4_Witness ==
  /\ Len(selectedScenarios) = Len(scenarios)
  /\ scenarioResults.cost = 8000000
  /\ DLess(scenarioResults.withMitigation, FromInt(18000000))

(* C4 (as stated): once the handlers are available, some selection they can
   build makes calculateScenarioImpact return a negative withMitigation. *)
C4_SomeSelectionNegative ==
  Rendered =>
    \E sel \in CatalogSelections :
      DLess(calculateScenarioImpact(sel).withMitigation, Zero)

(***************************************************************************)
(* Vocabulary of the ingestion properties.                                 *)
(***************************************************************************)
\* the whole text is a number: an optional sign and digits, white space around
IsNumberText(v) ==
  /\ v # Undefined
  /\ Let(trim(Chars(v)), LAMBDA cs :
       /\ Len(cs) > 0
       /\ LET first == IF cs[1] \in {"+", "-"} THEN 2 ELSE 1
          IN  first <= Len(cs) /\ \A i \in first..Len(cs) : IsDigit(cs[i]))

\* the text has the shape MM/DD/YY
IsMMDDYY(v) ==
  /\ v # Undefined
  /\ Let(split(v, "/"), LAMBDA parts :
       Len(parts) = 3 /\ \A k \in 1..3 : Len(parts[k]) = 2 /\ AllDigits(parts[k]))

\* the text is MM/DD/YY and names a day of the calendar
IsCalendarDate(v) ==
  /\ IsMMDDYY(v)
  /\ Let(split(v, "/"), LAMBDA parts :
       /\ parseInt(parts[1]).v \in 1..12
       /\ parseInt(parts[2]).v \in
            1..DaysInMonth(2000 + parseInt(parts[3]).v, parseInt(parts[1]).v - 1))

\* the event was made from the row
FromRow(event, row) ==
  /\ event.DateOfWeatherEvent = row.DateOfWeatherEvent
  /\ event.WeatherEvent = row.WeatherEvent
  /\ event.Installation = row.Installation

\* row i of the parsed CSV has an event in weatherData
Ingested(i) == \E j \in 1..Len(weatherData) : FromRow(weatherData[j], csvData[i])

(* C5: every row whose Cost is missing, empty or not a number (text with a
   numeric prefix included) is absent from the ingested events, and the
   presence of each other row is what it is when that row is ingested alone. *)
C5_NonNumericCostRejected ==
  pc = "done" =>
    /\ \A i \in 1..Len(csvData) : ~IsNumberText(csvData[i].Cost) => ~Ingested(i)
    /\ Len(weatherData) > 0 =>
         \A i \in 1..Len(csvData) :
           IsNumberText(csvData[i].Cost) =>
             (Ingested(i) <=> Len(cleanedData(<<csvData[i]>>)) = 1)

(* C6: every row whose date is absent or is not a valid MM/DD/YY calendar
   date is excluded, and no error is raised: with a row of numeric cost and
   valid date the load succeeds with that row. *)
C6_InvalidDateRejected ==
  pc = "done" =>
    /\ \A i \in 1..Len(csvData) :
         ~IsCalendarDate(csvData[i].DateOfWeatherEvent) => ~Ingested(i)
    /\ \A i \in 1..Len(csvData) :
         (IsNumberText(csvData[i].Cost) /\ IsCalendarDate(csvData[i].DateOfWeatherEvent))
           => (error = null /\ Ingested(i))

(* C7: every event of weatherData has a finite non-negative Cost and a Year
   that is a number (not NaN). *)
C7_RetainedEventsWellFormed ==
  \A j \in 1..Len(weatherData) :
    /\ ~isNaN(weatherData[j].Cost)
    /\ weatherData[j].Cost.v >= 0
    /\ ~isNaN(weatherData[j].Year)

(* C8: every event of weatherData whose date text is MM/DD/YY has
   Year = 2000 + YY. *)
C8_YearIsCenturyPlusYY ==
  \A j \in 1..Len(weatherData) :
    IsMMDDYY(weatherData[j].DateOfWeatherEvent) =>
      JStrictEq(weatherData[j].Year,
                JNum(2000 + parseInt(split(weatherData[j].DateOfWeatherEvent, "/")[3]).v))

(***************************************************************************)
(* Vocabulary of the classifier properties.                                *)
(***************************************************************************)
Labels ==
  {"Hurricane/Tropical Storm", "Winter Storm", "Severe Storm", "Flooding", "Tornado",
   "Hail", "Fire", "Earthquake", "Wave", "Other"}

\* the rules as a table: the category and its keywords, in rule order
Rules ==
  << <<"Hurricane/Tropical Storm", {"hurricane", "tropical", "cyclone", "mawar"}>>,
     <<"Winter Storm", {"winter", "snow", "arctic", "ice"}>>,
     <<"Severe Storm", {"storm", "wind", "nor'easter", "atmospheric river"}>>,
     <<"Flooding", {"flood", "water", "rain"}>>,
     <<"Tornado", {"tornado", "torando"}>>,
     <<"Hail", {"hail"}>>,
     <<"Fire", {"fire"}>>,
     <<"Earthquake", {"earthquake"}>>,
     <<"Wave", {"wave"}>> >>

\* rule k has a keyword that occurs in the description, letter case aside
RuleMatches(k, text) ==
  Let(toLowerCase(Chars(text)), LAMBDA cs : \E keyword \in Rules[k][2] : includes(cs, keyword))

\* the category of the first rule that matches, Other when none does
FirstMatch(text) ==
  IF \E k \in 1..Len(Rules) : RuleMatches(k, text)
  THEN Rules[CHOOSE k \in 1..Len(Rules) :
               RuleMatches(k, text) /\ \A h \in 1..(k - 1) : ~RuleMatches(h, text)][1]
  ELSE "Other"

WhiteSpaceOnly(v) ==
  v \notin {Undefined, null} /\ \A i \in 1..Len(v) : IsWhiteSpace(SubSeq(v, i, i))

(* C9: normalizeWeatherType returns, for every description (the empty, the
   white-space-only and the absent ones included), exactly one of the ten
   labels, and Other for an empty, white-space-only or absent description. *)
C9_ClassifierTotal ==
  category # NotClassified =>
    /\ category \in Labels
    /\ (description \in {Undefined, null} \/ WhiteSpaceOnly(description)) => category = "Other"

\* a white-space-only description has been classified
C9_Witness == description = "   " /\ category = "Other"

(* C10: normalizeWeatherType returns the category of the first rule, in the
   order Hurricane/Tropical Storm, Winter Storm, Severe Storm, Flooding,
   Tornado, Hail, Fire, Earthquake, Wave, that has a keyword occurring in the
   description, and Other when no rule has one; "Tropical Storm with high
   wind" is Hurricane/Tropical Storm. *)
C10_FirstMatchingRule ==
  (category # NotClassified /\ Truthy(description)) =>
    /\ category = FirstMatch(description)
    /\ description = "Tropical Storm with high wind" => category = "Hurricane/Tropical Storm"

\* a description with keywords of rule 1 and of rule 3 has been classified
C10_Witness ==
  /\ description = "Tropical Storm with high wind"
  /\ RuleMatches(1, description) /\ RuleMatches(3, description)
  /\ category = "Hurricane/Tropical Storm"

RECURSIVE FromChars(_, _)
FromChars(cs, i) == IF i = 0 THEN "" ELSE FromChars(cs, i - 1) \o cs[i]

UpperChar(c) ==
  LET k == IndexIn("abcdefghijklmnopqrstuvwxyz", c)
  IN  IF k = 0 THEN c ELSE SubSeq("ABCDEFGHIJKLMNOPQRSTUVWXYZ", k, k)

\* the text in upper case, in lower case, and with the case alternating from
\* character to character, either way
CaseVariants(text) ==
  Let(Chars(text), LAMBDA cs :
    { FromChars([i \in 1..Len(cs) |-> UpperChar(cs[i])], Len(cs)),
      FromChars([i \in 1..Len(cs) |-> LowerChar(cs[i])], Len(cs)),
      FromChars([i \in 1..Len(cs) |->
                   IF i % 2 = 0 THEN UpperChar(cs[i]) ELSE LowerChar(cs[i])], Len(cs)),
      FromChars([i \in 1..Len(cs) |->
                   IF i % 2 = 1 THEN UpperChar(cs[i]) ELSE LowerChar(cs[i])], Len(cs)) })

\* the text with white space put before it, after it, and around it
PaddedVariants(text) == {" " \o text, text \o "  ", "\t " \o text \o " \n"}

(* C11: normalizeWeatherType returns the same category for a description
   and for the description with the case of its letters changed or with
   white space put around it; "TORANDO warning" is Tornado. *)
C11_CaseAndPaddingIgnored ==
  (category # NotClassified /\ description \notin {Undefined, null}) =>
    /\ \A variant \in CaseVariants(description) \cup PaddedVariants(description)
                        \cup UNION {PaddedVariants(v) : v \in CaseVariants(description)} :
         normalizeWeatherType(variant) = category
    /\ description = "TORANDO warning" => category = "Tornado"

\* the misspelt keyword in capitals has been classified
C11_Witness ==
  /\ description = "TORANDO warning"
  /\ category = "Tornado"
  /\ "torando warning" \in CaseVariants(description)

(***************************************************************************)
(* The filter stage and the views alone: one load of at most MaxViewRows   *)
(* rows of ViewRows, then the two selectors.  The rows differ in year      *)
(* (one beyond 9999, one not a number), in category (two descriptions of   *)
(* one category) and in cost (a zero, and 23 with 17, whose share of 40 is *)
(* a half percent).                                                        *)
(***************************************************************************)
MaxViewRows == 2

ViewRows ==
  { Row("1000", "01/15/23", "Hurricane Ian", "", "Fort Bragg"),
    Row("500", "03/10/24", "Winter Storm", "Uri", "Fort Hood"),
    Row("0", "02/01/23", "Flood", "", "Fort Hood"),
    Row("1000", "12/31/9999", "Tropical Storm", "", "Fort Polk"),
    Row("23", "07/04/24", "Flash flood", "", "Fort Bragg"),
    Row("17", "abc", "Hail", "", "Fort Polk"),
    Row("abc", "02/01/23", "Flood", "", "Fort Hood") }

ViewInputs == UNION {[1..n -> ViewRows] : n \in 0..MaxViewRows}

ViewsNext ==
  \/ ResponseOk
  \/ \E data \in ViewInputs : ParseComplete(data)
  \/ \E value \in {"all"} \cup {NumberToString(y) : y \in years} : setSelectedYear(value)
  \/ \E value \in {"all"} \cup weatherTypes : setSelectedWeatherType(value)

SpecViews == Init /\ [][ViewsNext]_vars

(***************************************************************************)
(* The whole session, every outcome of the load and every handler, over    *)
(* the first rows of an event list that alternates between two years and   *)
(* two categories.                                                         *)
(***************************************************************************)
MaxSessionRows == 3

SessionRow(i) ==
  IF i % 2 = 1
  THEN Row("1000", "01/15/23", "Hurricane Ian", "", "Fort Bragg")
  ELSE Row("500", "03/10/24", "Winter Storm", "Uri", "Fort Hood")

SessionInputs == {[i \in 1..n |-> SessionRow(i)] : n \in 0..MaxSessionRows}

SessionNext ==
  \/ FetchRejects
  \/ ResponseNotOk
  \/ ResponseOk
  \/ TextRejects
  \/ \E data \in SessionInputs : ParseComplete(data)
  \/ ParseError
  \/ \E value \in {"all"} \cup {NumberToString(y) : y \in years} : setSelectedYear(value)
  \/ \E value \in {"all"} \cup weatherTypes : setSelectedWeatherType(value)
  \/ \E tab \in {"damage-forecast", "event-analysis"} : setActiveTab(tab)
  \/ \E scenarioId \in ScenarioIds : handleScenarioChange(scenarioId)
  \/ runScenario
  \/ applyOptimalScenario

SpecSession == Init /\ [][SessionNext]_vars

\* one step of fetchData: a promise it awaits settles, or Papa.parse, which
\* parses the text synchronously, calls one of its callbacks
LoadStep ==
  \/ FetchRejects
  \/ ResponseNotOk
  \/ ResponseOk
  \/ TextRejects
  \/ \E data \in SessionInputs : ParseComplete(data)
  \/ ParseError

\* the session when the fetch and the reading of the body settle: fetchData
\* does not stay at an await for ever
SpecSessionFair == SpecSession /\ WF_vars(LoadStep)

(***************************************************************************)
(* The two ingestions side by side, over rows with a Year column: a        *)
(* session is one of the primary component or one of part_001.             *)
(***************************************************************************)
MaxYearRows == 2

YearColumnTexts == {Undefined, "", "2019", "2023", "abc"}

YearRows ==
  {YearRow("1000", date, "Hurricane Ian", "", "Fort Bragg", year) :
     date \in {"01/15/23", "03/10/24"}, year \in YearColumnTexts}

YearInputs == UNION {[1..n -> YearRows] : n \in 0..MaxYearRows}

YearNext ==
  \/ ResponseOk
  \/ \E data \in YearInputs : ParseComplete(data)
  \/ \E data \in YearInputs, legacy \in BOOLEAN : ParseYearDataComplete(data, legacy)

SpecYear == Init /\ [][YearNext]_vars

(***************************************************************************)
(* The dashboard over event sets of many installations: windows of a       *)
(* generated event list whose installations repeat after MaxInstallations  *)
(* rows, some of them named by a number, many of them with equal costs.    *)
(***************************************************************************)
MaxInstallations == 12

InstallationName(i) ==
  LET k == ((i - 1) % MaxInstallations) + 1
  IN  IF k % 5 = 0 THEN NatToString(100 + k) ELSE "Fort " \o NatToString(k)

CostPattern == <<"300", "100", "300", "200">>

InstallationRow(i) ==
  Row(CostPattern[(i % Len(CostPattern)) + 1],
      <<"01/15/23", "03/10/24">>[(i % 2) + 1],
      <<"Flood", "Hurricane Ian", "Winter Storm">>[(i % 3) + 1],
      "",
      InstallationName(i))

InstallationInputs ==
  {[i \in 1..count |-> InstallationRow(first + i - 1)] :
     first \in 1..Len(CostPattern), count \in 0..(MaxInstallations + 2)}

InstallationsNext ==
  \/ ResponseOk
  \/ \E data \in InstallationInputs : ParseComplete(data)
  \/ \E value \in {"all"} \cup {NumberToString(y) : y \in years} : setSelectedYear(value)

SpecInstallations == Init /\ [][InstallationsNext]_vars

(***************************************************************************)
(* The README's dashboard: its load, its two selectors and its tabs.       *)
(***************************************************************************)
ReadmeInputs == ViewInputs \cup {<<Row("1000", Undefined, "Flood", "", "Fort Hood")>>}

ReadmeNext ==
  \/ ResponseOk
  \/ \E data \in ReadmeInputs : ParseReadmeComplete(data)
  \/ \E value \in {"all"} \cup {NumberToString(y) : y \in years} : setSelectedYear(value)
  \/ \E value \in {"all"} \cup weatherTypes : setSelectedWeatherType(value)
  \/ \E tab \in {"damage-forecast", "event-analysis"} : setActiveTab(tab)

SpecReadme == Init /\ [][ReadmeNext]_vars

(***************************************************************************)
(* The dashboard over costs with cents: windows of up to MaxSumRows rows   *)
(* of a generated event list whose costs run through fractions and whole   *)
(* numbers, in two categories and two years.                               *)
(***************************************************************************)
MaxSumRows == 3

CostCycle == <<"0.1", "0.2", "0.3", "1000", "500", "250">>

EventCycle ==
  <<"Winter Storm", "Hurricane Ian", "Hurricane Ian", "Hurricane Ian", "Winter Storm",
    "Winter Storm", "Hurricane Ian">>

SumRow(i) ==
  Row(CostCycle[((i - 1) % Len(CostCycle)) + 1],
      <<"01/15/23", "03/10/24">>[(i % 2) + 1],
      EventCycle[((i - 1) % Len(EventCycle)) + 1],
      "",
      "Fort Bragg")

SumInputs ==
  {[i \in 1..count |-> SumRow(first + i - 1)] :
     first \in 1..(2 * Len(CostCycle)), count \in 0..MaxSumRows}

SumsNext ==
  \/ ResponseOk
  \/ \E data \in SumInputs : ParseComplete(data)
  \/ \E value \in {"all"} \cup {NumberToString(y) : y \in years} : setSelectedYear(value)
  \/ \E value \in {"all"} \cup weatherTypes : setSelectedWeatherType(value)

SpecSums == Init /\ [][SumsNext]_vars

(***************************************************************************)
(* Vocabulary of the filter and view properties.                           *)
(***************************************************************************)
\* the event passes both selectors
MatchesSelection(item) ==
  /\ \/ selectedYear = "all"
     \/ /\ ~item.Year.nan
        /\ ~parseFloat(selectedYear).nan
        /\ item.Year.v = parseFloat(selectedYear).v
  /\ \/ selectedWeatherType = "all"
     \/ normalizeWeatherType(item.WeatherEvent) = selectedWeatherType

(* C12: the filtered set is exactly the events of weatherData whose Year
   equals the selected year (or the year selector is 'all') and whose
   derived category equals the selected type (or the type selector is
   'all'), in their order; with both selectors 'all' it is weatherData. *)
C12_FilterIsConjunction ==
  /\ filteredData = SelectSeq(weatherData, MatchesSelection)
  /\ (selectedYear = "all" /\ selectedWeatherType = "all") => filteredData = weatherData

\* both selectors are set and keep some events but not all
C12_Witness ==
  /\ selectedYear # "all"
  /\ selectedWeatherType # "all"
  /\ Len(filteredData) > 0
  /\ Len(filteredData) < Len(weatherData)
  /\ \E i \in 1..Len(filteredData) : filteredData[i].WeatherEvent # selectedWeatherType

\* sub is seq with some elements left out, the order kept
IsSubsequence(sub, seq) ==
  \E f \in [1..Len(sub) -> 1..Len(seq)] :
    /\ \A i, j \in 1..Len(sub) : i < j => f[i] < f[j]
    /\ \A i \in 1..Len(sub) : sub[i] = seq[f[i]]

(* C13: weatherData is written only by the completion of the load, once,
   from empty; no selector change, tab switch or scenario action changes it;
   and the filtered set is an order-preserving subsequence of weatherData. *)
C13_EventSetImmutable ==
  /\ [](IsSubsequence(filteredData, weatherData))
  /\ [][\/ weatherData' = weatherData
        \/ pc = "text" /\ pc' = "done" /\ weatherData = <<>>]_vars

\* selectors, tab and scenario handlers have acted on a loaded event set
C13_Witness ==
  /\ pc = "done"
  /\ Len(weatherData) > 1
  /\ selectedYear # "all"
  /\ Len(filteredData) < Len(weatherData)
  /\ activeTab = "event-analysis"
  /\ selectedScenarios # <<>>

\* the sum of Cost over the events of items at the positions I
RECURSIVE CostOver(_, _)
CostOver(items, I) ==
  IF I = {} THEN 0
  ELSE LET i == CHOOSE j \in I : TRUE
       IN  items[i].Cost.v + CostOver(items, I \ {i})

\* the positions of the filtered set whose event has the derived category
InCategory(name) ==
  {i \in 1..Len(filteredData) : normalizeWeatherType(filteredData[i].WeatherEvent) = name}

FilteredCategories ==
  {normalizeWeatherType(filteredData[i].WeatherEvent) : i \in 1..Len(filteredData)}

FilteredTotal == CostOver(filteredData, 1..Len(filteredData))

(* C14: once events are loaded, the by-category view has one entry per
   derived category of the filtered set, its value the sum of Cost over the
   category's events, the entries in non-increasing order of value; with a
   positive total the percentage is a whole number within one half of
   value / total * 100 (the binary64 quotient decides an exact half: 23 of
   40 gives 57), and with a zero total it is NaN. *)
C14_ByCategoryView ==
  Len(weatherData) > 0 =>
    /\ Len(costByWeatherType) = Cardinality(FilteredCategories)
    /\ {costByWeatherType[n].name : n \in 1..Len(costByWeatherType)} = FilteredCategories
    /\ \A n \in 1..Len(costByWeatherType) :
         LET entry == costByWeatherType[n]
             sum == CostOver(filteredData, InCategory(entry.name))
         IN  /\ entry.value = JNum(sum)
             /\ FilteredTotal > 0 =>
                  \E pct \in 0..100 :
                    /\ entry.percentage = FromInt(pct)
                    /\ 200 * sum - FilteredTotal <= 2 * FilteredTotal * pct
                    /\ 2 * FilteredTotal * pct <= 200 * sum + FilteredTotal
             /\ FilteredTotal = 0 => IsNaN(entry.percentage)
    /\ \A n, m \in 1..Len(costByWeatherType) :
         n < m => costByWeatherType[n].value.v >= costByWeatherType[m].value.v
    /\ \A n \in 1..Len(costByWeatherType) :
         (costByWeatherType[n].value = JNum(23) /\ FilteredTotal = 40)
           => costByWeatherType[n].percentage = FromInt(57)

\* two categories, 23 and 17 of 40: 57.49999999999999 and 42.5
C14_Witness ==
  /\ Len(costByWeatherType) = 2
  /\ costByWeatherType[1].value = JNum(23)
  /\ costByWeatherType[1].percentage = FromInt(57)
  /\ costByWeatherType[2].value = JNum(17)
  /\ costByWeatherType[2].percentage = FromInt(43)

\* the percentage as the exact value / total * 100 rounded half up
C14_PercentageIsExactRound ==
  (Len(weatherData) > 0 /\ FilteredTotal > 0) =>
    \A n \in 1..Len(costByWeatherType) :
      costByWeatherType[n].percentage =
        FromInt((200 * costByWeatherType[n].value.v + FilteredTotal) \div (2 * FilteredTotal))

(* C15: for every selection no by-category percentage and no average cost
   per event is NaN or Infinity.  Violated: nothing guards the divisions, so
   a filtered set whose costs sum to zero has the percentage
   Math.round(0 / 0 * 100) = NaN, and an empty filtered set has the average
   0 / 0 = NaN. *)
C15_NoNaNOrInfinity ==
  Len(weatherData) > 0 =>
    /\ \A n \in 1..Len(costByWeatherType) : costByWeatherType[n].percentage.kind = "num"
    /\ avgCostPerEvent.kind = "num"

\* the whole number a percentage stands for
PercentValue(x) == CHOOSE pct \in 0..100 : FromInt(pct) = x

RECURSIVE PercentSumFrom(_, _)
PercentSumFrom(view, n) ==
  IF n = 0 THEN 0 ELSE PercentSumFrom(view, n - 1) + PercentValue(view[n].percentage)

(* C16: over the full unfiltered event set the by-category percentages are
   numbers whose sum is within 100 plus or minus the number of categories,
   and over an empty filtered set the view has no entry.  Violated: events
   whose costs sum to zero have NaN percentages (C15). *)
C16_PercentagesSumTo100 ==
  /\ (Len(weatherData) > 0 /\ selectedYear = "all" /\ selectedWeatherType = "all") =>
       /\ \A n \in 1..Len(costByWeatherType) : costByWeatherType[n].percentage.kind = "num"
       /\ PercentSumFrom(costByWeatherType, Len(costByWeatherType))
            \in (100 - Len(costByWeatherType))..(100 + Len(costByWeatherType))
  /\ (Len(weatherData) > 0 /\ Len(filteredData) = 0) => costByWeatherType = <<>>

\* the positions of the filtered set whose event is of the installation
AtInstallation(name) ==
  {i \in 1..Len(filteredData) : TemplateText(filteredData[i].Installation) = name}

FilteredInstallations ==
  {TemplateText(filteredData[i].Installation) : i \in 1..Len(filteredData)}

InstallationCost(name) == CostOver(filteredData, AtInstallation(name))

ViewNames(view) == {view[n].name : n \in 1..Len(view)}

(* C17: the by-installation view has at most 10 entries, as many as there
   are installations when these are fewer; they are distinct installations
   of the filtered set, each with the sum of Cost of its events; no
   installation left out costs more than one that is shown; and the entries
   are in non-increasing order of value. *)
C17_TopTenInstallations ==
  Let(costByInstallation, LAMBDA view :
    /\ Len(view) <= 10
    /\ Len(view) = IF Cardinality(FilteredInstallations) < 10
                   THEN Cardinality(FilteredInstallations) ELSE 10
    /\ Cardinality(ViewNames(view)) = Len(view)
    /\ ViewNames(view) \subseteq FilteredInstallations
    /\ \A n \in 1..Len(view) : view[n].value = JNum(InstallationCost(view[n].name))
    /\ \A out \in FilteredInstallations \ ViewNames(view) :
         \A n \in 1..Len(view) : InstallationCost(out) <= view[n].value.v
    /\ \A n, m \in 1..Len(view) : n < m => view[n].value.v >= view[m].value.v)

\* more than 10 installations, truncated between two of equal cost
C17_Witness ==
  Let(costByInstallation, LAMBDA view :
    /\ Cardinality(FilteredInstallations) > 10
    /\ Len(view) = 10
    /\ \E out \in FilteredInstallations \ ViewNames(view) :
         InstallationCost(out) = view[10].value.v
    /\ \E name \in FilteredInstallations : Cardinality(AtInstallation(name)) > 1)

\* the entries in strictly decreasing order of value
C17_StrictlyDescending ==
  Let(costByInstallation, LAMBDA view :
    \A n, m \in 1..Len(view) : n < m => view[n].value.v > view[m].value.v)

\* the position at which the installation's group is discovered
Discovered(name) == CHOOSE i \in AtInstallation(name) : \A j \in AtInstallation(name) : i <= j

(* C18: installations of equal total cost appear in the order of discovery
   of their groups, and an installation left out by the truncation was
   discovered after every shown installation of the same cost.  Violated:
   the groups are enumerated as the properties of an object, and a name that
   is a whole number in canonical form is enumerated before every other
   name, whenever it was discovered. *)
C18_TiesInDiscoveryOrder ==
  Let(costByInstallation, LAMBDA view :
    /\ \A n, m \in 1..Len(view) :
         (n < m /\ view[n].value = view[m].value)
           => Discovered(view[n].name) < Discovered(view[m].name)
    /\ \A out \in FilteredInstallations \ ViewNames(view) :
         \A n \in 1..Len(view) :
           view[n].value.v = InstallationCost(out)
             => Discovered(view[n].name) < Discovered(out))

\* the positions of the filtered set whose event has the year, as text
InYear(name) ==
  {i \in 1..Len(filteredData) : NumberToString(filteredData[i].Year) = name}

FilteredYears == {NumberToString(filteredData[i].Year) : i \in 1..Len(filteredData)}

(* C19: once events are loaded, the by-year view has one entry per distinct
   Year of the filtered set, with the sum of Cost and the number of events
   of that year, in ascending order of the year as a number.  Violated: the
   entries are sorted by the year's text, and the ingestion produces years
   of different lengths and NaN from dates it should have rejected (C6). *)
C19_ByYearChronological ==
  Len(weatherData) > 0 =>
    /\ Len(costTrend) = Cardinality(FilteredYears)
    /\ ViewNames(costTrend) = FilteredYears
    /\ \A n \in 1..Len(costTrend) :
         /\ costTrend[n].value = JNum(CostOver(filteredData, InYear(costTrend[n].name)))
         /\ costTrend[n].count = Cardinality(InYear(costTrend[n].name))
    /\ \A n, m \in 1..Len(costTrend) :
         n < m => /\ ~parseFloat(costTrend[n].name).nan
                  /\ ~parseFloat(costTrend[m].name).nan
                  /\ parseFloat(costTrend[n].name).v < parseFloat(costTrend[m].name).v

(* C20: a load ends either with events and no error or, when the fetch
   rejects, the response is not OK, the body cannot be read, the parser
   reports an error or no row survives the cleaning, with error set, loading
   false and the event set empty; in the error state the dashboard is not
   rendered, no view has an entry, and nothing changes any more. *)
C20_ErrorStateShowsNoData ==
  /\ [](error # null =>
          /\ ~loading
          /\ pc = "done"
          /\ weatherData = <<>>
          /\ ~Rendered
          /\ costByWeatherType = <<>> /\ weatherEventsByCost = <<>> /\ costTrend = <<>>)
  /\ [][(pc # "done" /\ pc' = "done") =>
          \/ error' # null /\ ~loading' /\ weatherData' = <<>>
          \/ error' = null /\ ~loading' /\ Len(weatherData') > 0]_vars
  /\ [][error # null => error' = error]_vars

\* the load has failed: the response was not OK
C20_Witness ==
  /\ error = "Error fetching data: HTTP error! status: 404"
  /\ pc = "done"
  /\ ~loading
  /\ weatherData = <<>>

(* C21: while the load is pending the event set is empty, the component
   body filters it (the filter precedes the loading guard) and no
   aggregation is executed; an aggregation is executed only after the load
   has stored a non-empty event set, and never after it has stored an
   error. *)
C21_NoAggregationBeforeLoad ==
  /\ loading => (weatherData = <<>> /\ filteredData = <<>> /\ executed \cap Aggregations = {})
  /\ error # null => executed \cap Aggregations = {}
  /\ executed \cap Aggregations # {} => (pc = "done" /\ ~loading /\ Len(weatherData) > 0)

\* the response has arrived, the parse is pending, the body has filtered
C21_Witness == pc = "text" /\ loading /\ "filteredData" \in executed

\* no dependent computation at all while the load is pending
C21_NothingExecutedWhilePending == loading => executed = {}

(* C22: fetchData only moves forward, from the fetch to the parse to its
   end, so the fetch is issued once; loading never becomes true again; and
   once error is set no step changes error, loading or the position of
   fetchData. *)
C22_FetchedOnceNeverRetried ==
  /\ [][pc' # pc => \/ pc = "fetch" /\ pc' \in {"text", "done"}
                    \/ pc = "text" /\ pc' = "done"]_vars
  /\ [][~loading => ~loading']_vars
  /\ [][error # null => (error' = error /\ loading' = loading /\ pc' = pc)]_vars

\* the parser has reported an error and the session has ended with it
C22_Witness ==
  /\ error = "Error parsing CSV data: parse failure"
  /\ pc = "done"
  /\ ~loading

(* C23: the rows (1000, 01/15/23, Hurricane Ian, Fort Bragg) and (abc,
   02/01/23, Flood, Fort Hood) are ingested as one event, Cost 1000, Year
   2023, category Hurricane/Tropical Storm, and the by-category view is the
   one entry (Hurricane/Tropical Storm, 1000, 100); and whenever the
   filtered events share one category and their costs do not sum to zero,
   the view is one entry with percentage 100. *)
C23_EndToEnd ==
  /\ (pc = "done" /\ csvData = <<Row("1000", "01/15/23", "Hurricane Ian", "", "Fort Bragg"),
                                 Row("abc", "02/01/23", "Flood", "", "Fort Hood")>>) =>
       /\ Len(weatherData) = 1
       /\ weatherData[1].Cost = JNum(1000)
       /\ weatherData[1].Year = JNum(2023)
       /\ normalizeWeatherType(weatherData[1].WeatherEvent) = "Hurricane/Tropical Storm"
       /\ costByWeatherType = <<[name       |-> "Hurricane/Tropical Storm",
                                 value      |-> JNum(1000),
                                 percentage |-> FromInt(100)]>>
  /\ (Len(weatherData) > 0 /\ Cardinality(FilteredCategories) = 1 /\ FilteredTotal # 0) =>
       /\ Len(costByWeatherType) = 1
       /\ costByWeatherType[1].percentage = FromInt(100)

\* the two rows have been loaded
C23_Witness ==
  /\ pc = "done"
  /\ csvData = <<Row("1000", "01/15/23", "Hurricane Ian", "", "Fort Bragg"),
                 Row("abc", "02/01/23", "Flood", "", "Fort Hood")>>
  /\ Len(costByWeatherType) = 1
  /\ costByWeatherType[1].value = JNum(1000)

(* C24: once the load has stored the events, after every step the three
   stored views are the aggregates of the currently filtered set, computed
   anew; before that, and after an error, they are empty. *)
C24_ViewsAreCurrent ==
  IF Len(weatherData) > 0
  THEN /\ weatherEventsByCost = EventsByCost(filteredData)
       /\ costByWeatherType = TypeData(filteredData)
       /\ costTrend = TrendData(filteredData)
  ELSE /\ weatherEventsByCost = <<>>
       /\ costByWeatherType = <<>>
       /\ costTrend = <<>>

\* both selectors have been changed and the views are not those of all events
C24_Witness ==
  /\ selectedYear # "all"
  /\ selectedWeatherType # "all"
  /\ Len(costTrend) > 0
  /\ Len(filteredData) < Len(weatherData)
  /\ costByWeatherType # TypeData(weatherData)
  /\ costByWeatherType = TypeData(filteredData)

\* the year of an M/D/YY date text as the primary component derives it
DateYear(text) == JAdd(JNum(2000), parseInt(At(split(text, "/"), 2)))

\* the event was ingested by the primary component
ByPrimary(item) == "weatherEventFull" \in DOMAIN item

(* C25: on the same rows the primary component stores the year of the date,
   whatever the Year column says, and part_001 stores the number read from
   the Year column when the column has a value and falls back to the date
   (as far as the build can read it) only when it has none; so for a row
   whose Year column differs from the year of its date the two disagree. *)
C25_YearRulesDisagree ==
  (pc = "done" /\ error = null) =>
    /\ Len(weatherData) = Len(csvData)
    /\ \A i \in 1..Len(csvData) :
         LET row == csvData[i]
             item == weatherData[i]
         IN  /\ ByPrimary(item) => item.Year = DateYear(row.DateOfWeatherEvent)
             /\ (~ByPrimary(item) /\ Truthy(row.Year)) => item.Year = parseFloat(row.Year)
             /\ (~ByPrimary(item) /\ ~Truthy(row.Year)) =>
                  item.Year \in {DateYear(row.DateOfWeatherEvent), JNaN}
             /\ (Truthy(row.Year) /\ parseFloat(row.Year) # DateYear(row.DateOfWeatherEvent)) =>
                  \A legacy \in BOOLEAN :
                    /\ TransformRow(row).Year = DateYear(row.DateOfWeatherEvent)
                    /\ TransformYearRow(row, legacy).Year = parseFloat(row.Year)
                    /\ TransformYearRow(row, legacy).Year # TransformRow(row).Year

\* part_001 has stored 2019 for an event of 01/15/23
C25_Witness ==
  /\ pc = "done"
  /\ Len(weatherData) > 0
  /\ ~ByPrimary(weatherData[1])
  /\ csvData[1].Year = "2019"
  /\ csvData[1].DateOfWeatherEvent = "01/15/23"
  /\ weatherData[1].Year = JNum(2019)
  /\ TransformRow(csvData[1]).Year = JNum(2023)

\* the catalog ids in catalog order: what applyOptimalScenario selects
AllScenarioIds == [i \in 1..Len(scenarios) |-> scenarios[i].id]

(* C26: when all four catalog scenarios are selected, the stored result is
   the one computed for them and its savings is not below the savings of
   any other selection.  Violated: the summed reduction is divided by the
   number of selected scenarios, so all four save 24,500,000 * 0.2875 and
   scenario2 alone saves 24,500,000 * 0.40. *)
C26_OptimalIsMaximal ==
  selectedScenarios = AllScenarioIds =>
    /\ scenarioResults = calculateScenarioImpact(AllScenarioIds)
    /\ \A sel \in CatalogSelections :
         ~DLess(scenarioResults.savings, calculateScenarioImpact(sel).savings)

(* C27: the selection holds catalog ids only, none twice; and the result
   computed for a non-empty selection has withMitigation from 14,700,000 to
   19,600,000 and savings above zero. *)
C27_SelectionAndResultInRange ==
  /\ selectedScenarios \in CatalogSelections
  /\ selectedScenarios # <<>> =>
       Let(calculateScenarioImpact(selectedScenarios), LAMBDA result :
         /\ ~DLess(result.withMitigation, FromInt(14700000))
         /\ ~DLess(FromInt(19600000), result.withMitigation)
         /\ DLess(Zero, result.savings))

\* scenario2 alone, by a toggle: the lower end of the range
C27_Witness ==
  /\ selectedScenarios = <<"scenario2">>
  /\ scenarioResults.withMitigation = FromInt(14700000)
  /\ scenarioResults.cost = 3500000

(***************************************************************************)
(* Grouping and the totals.                                                *)
(***************************************************************************)
\* the values of the first i entries of a view, added in the view's order
RECURSIVE SumValuesFrom(_, _)
SumValuesFrom(view, i) ==
  IF i = 0 THEN JNum(0) ELSE JAdd(SumValuesFrom(view, i - 1), view[i].value)

SumValues(view) == SumValuesFrom(view, Len(view))

RECURSIVE SumCountsFrom(_, _)
SumCountsFrom(view, i) == IF i = 0 THEN 0 ELSE SumCountsFrom(view, i - 1) + view[i].count

WholeCosts(items) == \A i \in 1..Len(items) : ~IsDouble(items[i].Cost)

\* |a - b| * 2^50 <= |b|: a and b agree to within a few units in the last
\* place of a binary64 value
AgreeToRounding(a, b) ==
  Let(DSub(ToDouble(a), ToDouble(b)), LAMBDA d :
    \/ IsZero(d)
    \/ /\ d.kind = "num"
       /\ ~DLess([ToDouble(b) EXCEPT !.sign = 0], [d EXCEPT !.sign = 0, !.exp = @ + 50]))

\* C28 (as the code has it): once an event set is stored, every event of the
\* filtered set is in exactly one by-category entry and in exactly one
\* by-year entry: the by-year counts add up to the number of filtered events,
\* the by-category names are the categories of the filtered events and the
\* by-year names their years.  When every filtered Cost is a whole number,
\* the by-category values, the by-year values and the total Cost all add up
\* to the same number; with fractional costs the three sums are binary64
\* sums taken in different orders and agree only to within rounding.
C28_GroupingKeepsEveryEvent ==
  Len(weatherData) > 0 =>
    Let(filteredData, LAMBDA filtered :
      Let(sumBy(filtered), LAMBDA total :
        /\ SumCountsFrom(costTrend, Len(costTrend)) = Len(filtered)
        /\ {costByWeatherType[n].name : n \in 1..Len(costByWeatherType)}
             = {normalizeWeatherType(filtered[i].WeatherEvent) : i \in 1..Len(filtered)}
        /\ {costTrend[n].name : n \in 1..Len(costTrend)}
             = {NumberToString(filtered[i].Year) : i \in 1..Len(filtered)}
        /\ WholeCosts(filtered) =>
             /\ SumValues(costByWeatherType) = total
             /\ SumValues(costTrend) = total
        /\ AgreeToRounding(SumValues(costByWeatherType), total)
        /\ AgreeToRounding(SumValues(costTrend), total)))

\* three events of two categories in two years, with whole costs
C28_Witness ==
  /\ pc = "done"
  /\ Len(filteredData) = 3
  /\ WholeCosts(filteredData)
  /\ Len(costByWeatherType) = 2
  /\ Len(costTrend) = 2
  /\ SumValues(costByWeatherType) = JNum(1750)
  /\ SumCountsFrom(costTrend, Len(costTrend)) = 3

\* C28 (as stated): the by-category values, the by-year values and the total
\* Cost of the filtered events add up to the same number, for every filtered
\* set
C28_SumsAreEqual ==
  Len(weatherData) > 0 =>
    Let(ToDouble(sumBy(filteredData)), LAMBDA total :
      /\ ToDouble(SumValues(costByWeatherType)) = total
      /\ ToDouble(SumValues(costTrend)) = total)

(* C29: under the assumption that the promises fetchData awaits settle,
   loading becomes false and stays false, whichever way the load goes; the
   only change loading ever makes is the one from true to false; and the
   step that makes it ends fetchData with either error set and no event set
   stored, or an event set stored and no error. *)
C29_LoadingEndsOnce ==
  /\ <>[](~loading)
  /\ [][loading' # loading =>
          /\ loading /\ ~loading'
          /\ pc' = "done"
          /\ \/ error' # null /\ weatherData' = <<>>
             \/ error' = null /\ weatherData' # <<>> /\ weatherData' = cleanedData(csvData')]_vars

\* the load has ended in the catch block, on the empty cleaned set
C29_Witness ==
  /\ ~loading
  /\ pc = "done"
  /\ error = "Error fetching data: No valid data after cleaning"
  /\ weatherData = <<>>

(* C30 (as stated): in the README's dashboard, whenever the damage-forecast
   tab is rendered the by-year trend list has an entry, so that
   costTrend[0] and costTrend[costTrend.length - 1] exist. *)
C30_TrendListNonEmpty ==
  (Rendered /\ activeTab = "damage-forecast") => Len(TrendData(filteredData)) > 0

=============================================================================
